---- MODULE Spec2Model ----
(***************************************************************************)
(* A model of the VOFC extraction / merge / link pipeline of the           *)
(* Ollama-Backend repository:                                              *)
(*   - chunk_text (app/services/vofc_parser.py) and the fixed-width        *)
(*     chunking of process_text_with_vofc_engine                           *)
(*     (pipeline/heuristic_pipeline.py),                                   *)
(*   - the per-chunk extraction loops of both paths,                       *)
(*   - merge_vofc_results with its SequenceMatcher based deduplication,    *)
(*   - link_vulns_to_ofcs with its reinforcement memory,                   *)
(*   - the orphan-link resolution of process_submission.                   *)
(* Texts are sequences of one-character strings.  Similarities are kept    *)
(* as exact fractions (matches, total length) or as hundredths.            *)
(***************************************************************************)
EXTENDS Integers, Sequences, FiniteSets, TLC

VARIABLES
  pc,          \* position of the modelled run
  text,        \* the document text handed to a chunker
  max_len,     \* max_len of chunk_text / chunk_size of the engine
  parts,       \* result of chunk_text
  chunks,      \* result of the slicing in process_text_with_vofc_engine
  path,        \* "engine": process_text_with_vofc_engine, "parser": parse_text_to_vofc
  n_chunks,    \* len(chunks) of the document being extracted
  outcomes,    \* what the model call did for each chunk sent so far
  all_results, \* all_results (engine) / results (parser) of the chunk loop
  merged,      \* the result object: merged, then linked
  st_available, \* SENTENCE_TRANSFORMERS_AVAILABLE
  memory,      \* the lines of data/learned_links.jsonl
  cos,         \* the cosine similarities the embedding model has given so far
  learned,     \* learned of the running link_vulns_to_ofcs
  new_links,   \* new_links of the running link_vulns_to_ofcs
  runs,        \* number of submissions started
  vuln_rows,   \* vuln_rows of process_submission
  ofc_rows,    \* ofc_rows of process_submission
  link_rows,   \* link_rows of process_submission
  results,     \* results of process_submission
  dry_run,     \* dry_run of process_submission
  src_rows,    \* src_rows of process_submission
  ofc_src_rows, \* ofc_src_rows of process_submission
  posts,       \* the requests _sb_post has sent in this run, with their outcome
  proc,        \* the runs of link_vulns_to_ofcs that go on in parallel
  acq,         \* text acquisition of a document and what is done with the text
  doc,         \* the document handed to segment_document
  segments,    \* the result of segment_document
  dedup,       \* a call of semantic_dedupe or filter_unique and its result
  scan,        \* an answer of the model and what call_ollama returns for it
  folders,     \* the files in the incoming, processed and errors folders
  req,         \* the process-one and process-pending requests the server handles
  updates,     \* the status updates of the submission records
  embed,       \* a call of _ollama_embed: the texts, the response, the result
  multi,       \* a run of the multi-model pipeline: the model results, the combined list
  subs,        \* the rows of the submissions table
  batch,       \* the request to /process-pending that is handled
  watch        \* the watcher: the incoming folder, processing_files, the running handler

chunkVars == <<text, max_len, parts, chunks>>
extractVars == <<path, n_chunks, outcomes, all_results, merged>>
linkVars == <<st_available, memory, cos, learned, new_links, runs>>
submitVars ==
  <<vuln_rows, ofc_rows, link_rows, results, dry_run, src_rows, ofc_src_rows, posts>>
parVars == <<proc>>
acqVars == <<acq>>
segVars == <<doc, segments>>
dedVars == <<dedup>>
scanVars == <<scan>>
reqVars == <<folders, req, updates>>
embVars == <<embed>>
multiVars == <<multi>>
batchVars == <<subs, batch>>
watchVars == <<watch>>
lateVars == <<scanVars, reqVars, embVars, multiVars, batchVars, watchVars>>
earlyVars ==
  <<chunkVars, extractVars, linkVars, submitVars, parVars, acqVars, segVars, dedVars>>
auxVars == <<parVars, acqVars, segVars, dedVars, lateVars>>
pipeVars == <<linkVars, submitVars, auxVars>>
vars == <<pc, chunkVars, extractVars, linkVars, submitVars, auxVars>>

(***************************************************************************)
(* Bounds of the model.                                                    *)
(***************************************************************************)
MaxTextLen == 4
MaxChunkLen == 3
MaxChunks == 3
MaxRuns == 2
MaxProcs == 3
MaxBlocks == 3
MaxItems == 3
MaxRawLen == 5
MaxReqs == 2
MaxFiles == 2
MaxTexts == 2
MaxCombined == 3
MaxOrphans == 3
MaxSubs == 3
MaxBatches == 2
MaxEvents == 3

NL == "\n"
ChunkAlphabet == {"a", "b", NL}

\* All sequences over S of length at most n.
SeqsUpTo(S, n) == UNION {[1..k -> S] : k \in 0..n}

(***************************************************************************)
(* Sequence helpers that stand for Python built-ins.                       *)
(***************************************************************************)
\* sum(len(x) for x in seqs)
RECURSIVE SumLen(_)
SumLen(seqs) ==
  IF seqs = <<>> THEN 0 ELSE Len(Head(seqs)) + SumLen(Tail(seqs))

\* sep.join(seqs)
RECURSIVE Join(_, _)
Join(seqs, sep) ==
  IF seqs = <<>> THEN <<>>
  ELSE IF Len(seqs) = 1 THEN Head(seqs)
  ELSE Head(seqs) \o sep \o Join(Tail(seqs), sep)

\* "".join(seqs)
RECURSIVE Concat(_)
Concat(seqs) ==
  IF seqs = <<>> THEN <<>> ELSE Head(seqs) \o Concat(Tail(seqs))

\* s.find(c) + 1: the first index of character c in s, 0 when absent
FindChar(s, c) ==
  IF \E i \in 1..Len(s) : s[i] = c
  THEN CHOOSE i \in 1..Len(s) : s[i] = c /\ \A j \in 1..(i - 1) : s[j] # c
  ELSE 0

\* str.splitlines() for texts whose only line break is "\n": a trailing line
\* break opens no further line, the empty text has no line.
RECURSIVE SplitLines(_)
SplitLines(t) ==
  IF t = <<>> THEN <<>>
  ELSE LET i == FindChar(t, NL) IN
       IF i = 0 THEN <<t>>
       ELSE <<SubSeq(t, 1, i - 1)>> \o SplitLines(SubSeq(t, i + 1, Len(t)))

\* s.split(c): always at least one field
RECURSIVE SplitOn(_, _)
SplitOn(s, c) ==
  LET i == FindChar(s, c) IN
  IF i = 0 THEN <<s>>
  ELSE <<SubSeq(s, 1, i - 1)>> \o SplitOn(SubSeq(s, i + 1, Len(s)), c)

(***************************************************************************)
(* Text helpers of heuristic_pipeline.py: str.lower, str.split, str.strip, *)
(* normalize_text and difflib.SequenceMatcher(None, a, b).ratio().         *)
(***************************************************************************)
\* str.lower on the characters the model's texts use
LowerChar(c) ==
  CASE c = "A" -> "a"
    [] c = "X" -> "x"
    [] c = "Y" -> "y"
    [] OTHER -> c

StrLower(s) == [i \in 1..Len(s) |-> LowerChar(s[i])]

IsSpace(c) == c \in {" ", NL}

\* s.split(): the maximal runs of non-space characters
RECURSIVE Words(_)
Words(s) ==
  IF s = <<>> THEN <<>>
  ELSE IF IsSpace(Head(s)) THEN Words(Tail(s))
  ELSE LET stop == IF \E i \in 1..Len(s) : IsSpace(s[i])
                   THEN CHOOSE i \in 1..Len(s) :
                          IsSpace(s[i]) /\ \A j \in 1..(i - 1) : ~IsSpace(s[j])
                   ELSE Len(s) + 1
       IN <<SubSeq(s, 1, stop - 1)>> \o Words(SubSeq(s, stop, Len(s)))

\* s.strip()
RECURSIVE Strip(_)
Strip(s) ==
  IF s = <<>> THEN s
  ELSE IF IsSpace(Head(s)) THEN Strip(Tail(s))
  ELSE IF IsSpace(s[Len(s)]) THEN Strip(SubSeq(s, 1, Len(s) - 1))
  ELSE s

\* normalize_text: " ".join(text.lower().split())
normalize_text(s) == Join(Words(StrLower(s)), <<" ">>)

\* Length of the common run of a from i and of b from j, inside a[..ahi]
\* and b[..bhi].
RECURSIVE RunLen(_, _, _, _, _, _)
RunLen(a, b, i, j, ahi, bhi) ==
  IF i <= ahi /\ j <= bhi /\ a[i] = b[j]
  THEN 1 + RunLen(a, b, i + 1, j + 1, ahi, bhi)
  ELSE 0

\* The length of the common run from every pair of positions of a[alo..ahi]
\* and b[blo..bhi].
RunTable(a, b, alo, ahi, blo, bhi) ==
  [p \in (alo..ahi) \X (blo..bhi) |-> RunLen(a, b, p[1], p[2], ahi, bhi)]

\* The pair of positions find_longest_match settles on: the longest run,
\* then the least i, then the least j.
BestRun(R) ==
  CHOOSE p \in DOMAIN R :
    \A q \in DOMAIN R :
      \/ R[q] < R[p]
      \/ R[q] = R[p] /\ (p[1] < q[1] \/ (p[1] = q[1] /\ p[2] <= q[2]))

\* Match(i, j, k) for the run at p, Match(alo, blo, 0) when it is empty.
MatchAt(R, p, alo, blo) ==
  IF R[p] = 0 THEN <<alo, blo, 0>> ELSE <<p[1], p[2], R[p]>>

\* SequenceMatcher.find_longest_match on a[alo..ahi], b[blo..bhi] (no junk):
\* <<i, j, k>> with k maximal, then i minimal, then j minimal.
PickMatch(R, alo, blo) ==
  IF DOMAIN R = {} THEN <<alo, blo, 0>> ELSE MatchAt(R, BestRun(R), alo, blo)

FindLongestMatch(a, b, alo, ahi, blo, bhi) ==
  PickMatch(RunTable(a, b, alo, ahi, blo, bhi), alo, blo)

\* Sum of the sizes of SequenceMatcher.get_matching_blocks(): the longest
\* match m, then the same to its left and to its right.
RECURSIVE Matches(_, _, _, _, _, _)
RECURSIVE MatchesAround(_, _, _, _, _, _, _)
MatchesAround(a, b, alo, ahi, blo, bhi, m) ==
  IF m[3] = 0 THEN 0
  ELSE m[3] + Matches(a, b, alo, m[1] - 1, blo, m[2] - 1)
            + Matches(a, b, m[1] + m[3], ahi, m[2] + m[3], bhi)

Matches(a, b, alo, ahi, blo, bhi) ==
  IF alo > ahi \/ blo > bhi THEN 0
  ELSE MatchesAround(a, b, alo, ahi, blo, bhi,
                     FindLongestMatch(a, b, alo, ahi, blo, bhi))

\* SequenceMatcher(None, a, b).ratio() as the fraction <<num, den>>:
\* 2 * matches / (len(a) + len(b)), and 1 when both are empty.
Ratio(a, b) ==
  IF Len(a) + Len(b) = 0 THEN <<1, 1>>
  ELSE <<2 * Matches(a, b, 1, Len(a), 1, Len(b)), Len(a) + Len(b)>>

\* r > num / den for a fraction r
RatioAbove(r, num, den) == r[1] * den > num * r[2]

\* similarity(a, b): 0.0 when either is empty, else the ratio of the
\* normalized texts
similarity(a, b) ==
  IF a = <<>> \/ b = <<>> THEN <<0, 1>>
  ELSE Ratio(normalize_text(a), normalize_text(b))


(***************************************************************************)
(* The texts the model answers are made of: titles, questions and option   *)
(* titles, some of them equal up to case and white space, and three keys   *)
(* of which the middle one is within 0.8 of both others.                   *)
(***************************************************************************)
KeyA == <<"X", "b", "c", "d", "e", "f">>
KeyB == <<"a", "b", "c", "d", "e", "f">>
KeyC == <<"a", "b", "c", "d", "e", "Y">>
TitleGate == <<"g", "a", "t", "e">>
QLock == <<"l", "o", "c", "k", "?">>
QWall == <<"w", "a", "l", "l", "?">>
WhatLock == <<"n", "o", " ", "l", "o", "c", "k">>
OptLock == <<"a", "d", "d", " ", "l", "o", "c", "k">>
OptLock2 == <<"A", "d", "d", " ", " ", "l", "o", "c", "k", " ">>
OptFix == <<"f", "i", "x", " ", "i", "t">>
QDoor == <<"d", "o", "o", "r", "?">>
WhatOpen == <<"o", "p", "e", "n">>

(***************************************************************************)
(* merge_vofc_results (pipeline/heuristic_pipeline.py).                    *)
(* An item is one dict of the model's JSON answer:                         *)
(*   [vulnerability, question, what, so_what, ofcs]                        *)
(* with ofcs the option titles of its options_for_consideration.  uuid4()  *)
(* values are modelled as fresh integers, None as NoId.                    *)
(***************************************************************************)
NoId == 0

\* threshold=0.8 of is_duplicate, in hundredths
DupThreshold == 80

\* The texts that occur as dedup keys of the model answers below.
PoolKeys == {KeyA, KeyB, KeyC, TitleGate, QLock, QWall, QDoor}

\* SequenceMatcher(None, a.lower(), b.lower()).ratio() of the pool's keys,
\* computed once.
KeyRatios ==
  [a \in PoolKeys |->
     [b \in PoolKeys |-> Ratio(StrLower(a), StrLower(b))] @@ <<>>] @@ <<>>

\* ratio = SequenceMatcher(None, new_item.lower(), existing.lower()).ratio()
LowerRatio(a, b) ==
  IF a \in PoolKeys /\ b \in PoolKeys THEN KeyRatios[a][b]
  ELSE Ratio(StrLower(a), StrLower(b))

\* The test of is_duplicate on one existing key: ratio > threshold.
DupRatioAbove(new_item, existing, threshold) ==
  RatioAbove(LowerRatio(new_item, existing), threshold, 100)

\* is_duplicate that never finds a duplicate.
is_duplicate_never(new_item, existing_items, threshold) == 0

\* is_duplicate that compares with the most recent existing item only.
is_duplicate_last(new_item, existing_items, threshold) ==
  IF existing_items # <<>>
     /\ DupRatioAbove(new_item, existing_items[Len(existing_items)], threshold)
  THEN Len(existing_items) ELSE 0

\* The least index of a set of indices, 0 when there is none.
FirstIndex(hits) ==
  IF hits = {} THEN 0 ELSE CHOOSE i \in hits : \A j \in hits : i <= j

\* is_duplicate(new_item, existing_items, threshold): the index of the first
\* existing item whose ratio with new_item is above the threshold, 0 for
\* (False, None).
is_duplicate(new_item, existing_items, threshold) ==
  FirstIndex({i \in 1..Len(existing_items) :
                DupRatioAbove(new_item, existing_items[i], threshold)})

\* The state of the loops of merge_vofc_results.
MergeStart ==
  [vulnerabilities |-> <<>>, ofcs |-> <<>>, vuln_map |-> <<>>,
   seen_ofcs |-> {}, vuln_ids |-> <<>>, next_id |-> 1]

\* full_description: the WHAT / SO WHAT blocks joined by an empty line
Description(item) ==
  LET w == IF item.what # <<>>
           THEN << <<"W", "H", "A", "T", ":", " ">> \o item.what >> ELSE <<>>
      sw == IF item.so_what # <<>>
            THEN << <<"S", "O", " ", "W", "H", "A", "T", ":", " ">> \o item.so_what >>
            ELSE <<>>
  IN Join(w \o sw, <<NL, NL>>)

\* An option recorded with the vuln_id of its item as its link.
MergeOfcNested(st, option_title, key) ==
  IF option_title # <<>> /\ key \notin st.seen_ofcs
  THEN [st EXCEPT
          !.ofcs = Append(@, [id |-> st.next_id,
                              title |-> option_title,
                              linked_vulnerability |-> st.vuln_ids[Len(st.vuln_ids)]]),
          !.seen_ofcs = @ \cup {key},
          !.next_id = @ + 1]
  ELSE st

\* One option with its stripped title and its key: recorded unless the
\* title is empty or the key was seen.
MergeOfc(st, option_title, key) ==
  IF option_title # <<>> /\ key \notin st.seen_ofcs
  THEN [st EXCEPT
          !.ofcs = Append(@, [id |-> st.next_id,
                              title |-> option_title,
                              linked_vulnerability |-> NoId]),
          !.seen_ofcs = @ \cup {key},
          !.next_id = @ + 1]
  ELSE st

\* The inner loop over the options of one item.
RECURSIVE MergeOfcs(_, _)
MergeOfcs(st, ofcs) ==
  IF ofcs = <<>> THEN st
  ELSE MergeOfcs(MergeOfc(st, Strip(Head(ofcs)),
                          normalize_text(Strip(Head(ofcs)))),
                 Tail(ofcs))

\* dedup_key = question or vuln_title
DedupKey(item) == IF item.question # <<>> THEN item.question ELSE item.vulnerability

\* The keys of vuln_map, in insertion order.
MapKeys(vuln_map) == [i \in 1..Len(vuln_map) |-> vuln_map[i][1]]

\* A list element of the model's answer that is no dict (and no JSON text).
Junk == [junk |-> TRUE]
IsDict(r) == "vulnerability" \in DOMAIN r

\* The vulnerability of one item, dup being the result of is_duplicate: the
\* id of the duplicate is reused, or a new vulnerability is recorded.
MergeVuln(st, item, dup) ==
  IF dup # 0
  THEN [st EXCEPT !.vuln_ids = Append(@, st.vuln_map[dup][2])]
  ELSE [st EXCEPT
          !.vuln_map = Append(@, <<DedupKey(item), st.next_id>>),
          !.vulnerabilities =
             Append(@, [id |-> st.next_id,
                        question |-> Strip(item.question),
                        title |-> Strip(item.vulnerability),
                        description |-> Description(item),
                        what |-> Strip(item.what),
                        so_what |-> Strip(item.so_what)]),
          !.vuln_ids = Append(@, st.next_id),
          !.next_id = @ + 1]

\* One item of one entry: skipped when it is no dict or has no title; else
\* deduplicated by its key or recorded as a new vulnerability; then its
\* options are merged.
MergeItem(st, item) ==
  IF ~IsDict(item) \/ item.vulnerability = <<>>
  THEN [st EXCEPT !.vuln_ids = Append(@, NoId)]
  ELSE MergeOfcs(MergeVuln(st, item,
                           is_duplicate(DedupKey(item), MapKeys(st.vuln_map),
                                        DupThreshold)),
                 item.ofcs)

RECURSIVE MergeEntry(_, _)
MergeEntry(st, entry) ==
  IF entry = <<>> THEN st ELSE MergeEntry(MergeItem(st, Head(entry)), Tail(entry))

RECURSIVE MergeLoop(_, _)
MergeLoop(st, results_list) ==
  IF results_list = <<>> THEN st
  ELSE MergeLoop(MergeEntry(st, Head(results_list)), Tail(results_list))

\* The merged object after the loops; vuln_ids keeps the vuln_id the loop
\* computed for every item, next_id the next fresh id.
MergeResult(st) ==
  [vulnerabilities |-> st.vulnerabilities,
   ofcs |-> st.ofcs,
   links |-> [vuln_ofc |-> Len(st.ofcs), ofc_sources |-> 0],
   vuln_ids |-> st.vuln_ids,
   next_id |-> st.next_id]

merge_vofc_results(results_list) == MergeResult(MergeLoop(MergeStart, results_list))


(***************************************************************************)
(* The model answers the extraction is run on.                             *)
(***************************************************************************)
Item(v, q, w, o) ==
  [vulnerability |-> v, question |-> q, what |-> w, so_what |-> <<>>, ofcs |-> o]

ItA == Item(KeyA, <<>>, <<>>, <<OptLock>>)
ItB == Item(KeyB, <<>>, <<>>, <<OptLock2>>)
ItC == Item(KeyC, <<>>, <<>>, <<>>)
ItG1 == Item(TitleGate, QLock, <<>>, <<OptFix>>)
ItG2 == Item(TitleGate, QWall, WhatLock, <<OptLock>>)
ItG3 == Item(TitleGate, QDoor, WhatOpen, <<OptFix>>)
ItNoTitle == Item(<<>>, QLock, <<>>, <<OptFix>>)
ItBare == Item(TitleGate, QLock, <<>>, <<>>)
ItWall == Item(TitleGate, QWall, WhatLock, <<>>)

\* The valid_res lists a chunk can contribute.
EntryPool == { <<ItA>>, <<ItB>>, <<ItA, ItB>>, <<ItNoTitle>> }

(***************************************************************************)
(* The chunk loop of process_text_with_vofc_engine with call_ollama.       *)
(* The outcome of one model call:                                          *)
(*   timeout      subprocess.run raises TimeoutExpired                     *)
(*   error        subprocess.run raises anything else                      *)
(*   unparseable  json.loads raises JSONDecodeError                        *)
(*   null         the answer is the JSON value null                        *)
(*   number       the answer is a JSON number other than 0                 *)
(*   list         the answer is a JSON array (value: its elements)         *)
(*   dict         the answer is one JSON object that holds no array       *)
(*                (value: <<the object>>); an object that holds an array, *)
(*                as one with options_for_consideration, is cut at the    *)
(*                end of the array and is unparseable                     *)
(***************************************************************************)
FailureKinds == {"timeout", "error", "unparseable"}

EngineOutcomes ==
  {[kind |-> k, value |-> <<>>] :
      k \in FailureKinds \cup {"null", "number"}}
  \cup {[kind |-> "list", value |-> e] :
          e \in EntryPool \cup {<<>>, <<Junk>>, <<Junk, ItC>>}}
  \cup {[kind |-> "dict", value |-> <<ItBare>>]}

\* call_ollama's return value for the list-like outcomes: [] after an
\* exception or a parse failure, the parsed list, [parsed] for an object.
call_ollama(outcome) ==
  IF outcome.kind \in {"list", "dict"} THEN outcome.value ELSE <<>>

\* valid_res = [r for r in res if isinstance(r, dict)]
ValidRes(res) == SelectSeq(res, IsDict)

\* AfterCall with a failed chunk discarding what was collected before it.
AfterCallReset(acc, res) ==
  IF res # <<>> /\ ValidRes(res) # <<>>
  THEN Append(acc, ValidRes(res))
  ELSE <<>>

\* all_results after the body of the chunk loop ran on res.
AfterCall(acc, res) ==
  IF res # <<>> /\ ValidRes(res) # <<>>
  THEN Append(acc, ValidRes(res))
  ELSE acc

(***************************************************************************)
(* The chunk loop of parse_text_to_vofc with generate, and the parser's    *)
(* own merge_vofc_results (app/services/vofc_parser.py).                   *)
(***************************************************************************)
PV(t) == [vulnerability |-> t]
PO(t) == [ofc |-> t]
Part(v, o) == [vulnerabilities |-> v, options_for_consideration |-> o, links |-> <<>>]

PartPool ==
  { Part(<<PV(KeyA)>>, <<PO(OptLock)>>),
    Part(<<PV(KeyB), PV(KeyA)>>, <<PO(OptLock), PO(OptFix)>>),
    Part(<<PV(<<>>)>>, <<>>) }

ParserOutcomes ==
  {[kind |-> k, value |-> <<>>] : k \in FailureKinds \cup {"list"}}
  \cup {[kind |-> "dict", value |-> q] : q \in PartPool}

\* results after the body of the loop: generate raised (timeout, HTTP or
\* transport error), returned {"raw_text": text} for an answer that is not
\* JSON, a dict, or something else that is wrapped as {"raw": part}.
AfterGenerate(acc, outcome) ==
  CASE outcome.kind \in {"timeout", "error"} -> acc
    [] outcome.kind = "unparseable" -> Append(acc, [raw_text |-> <<>>])
    [] outcome.kind = "dict" -> Append(acc, outcome.value)
    [] OTHER -> Append(acc, [raw |-> <<>>])

\* p.get(k) or []
PGet(q, k) == IF k \in DOMAIN q THEN q[k] ELSE <<>>

\* merged[k].extend(vals) over the parts
RECURSIVE Extend(_, _)
Extend(ps, k) ==
  IF ps = <<>> THEN <<>> ELSE PGet(Head(ps), k) \o Extend(Tail(ps), k)

\* the rows whose text field f is not empty and not seen before, in order
RECURSIVE DedupByText(_, _, _)
DedupByText(rows, f, seen) ==
  IF rows = <<>> THEN <<>>
  ELSE LET t == Head(rows)[f] IN
       IF t # <<>> /\ t \notin seen
       THEN <<Head(rows)>> \o DedupByText(Tail(rows), f, seen \cup {t})
       ELSE DedupByText(Tail(rows), f, seen)

parser_merge_vofc_results(ps) ==
  [vulnerabilities |-> DedupByText(Extend(ps, "vulnerabilities"), "vulnerability", {}),
   options_for_consideration |->
     DedupByText(Extend(ps, "options_for_consideration"), "ofc", {}),
   links |-> Extend(ps, "links")]


(***************************************************************************)
(* chunk_text (app/services/vofc_parser.py).                               *)
(***************************************************************************)
\* The flush test of the loop: the buffer is closed once the accumulated
\* line length exceeds max_len.
ChunkFull(total_len, maxlen) == total_len > maxlen

\* The loop body over the lines, from (parts, buf, total_len).
RECURSIVE ChunkLoop(_, _, _, _, _)
ChunkLoop(lines, maxlen, ps, buf, total_len) ==
  IF lines = <<>>
  THEN IF buf # <<>> THEN Append(ps, Join(buf, <<NL>>)) ELSE ps
  ELSE LET buf2 == Append(buf, Head(lines))
           tot2 == total_len + Len(Head(lines))
       IN IF ChunkFull(tot2, maxlen)
          THEN ChunkLoop(Tail(lines), maxlen, Append(ps, Join(buf2, <<NL>>)), <<>>, 0)
          ELSE ChunkLoop(Tail(lines), maxlen, ps, buf2, tot2)

chunk_text(t, maxlen) == ChunkLoop(SplitLines(t), maxlen, <<>>, <<>>, 0)

(***************************************************************************)
(* The chunking of process_text_with_vofc_engine:                          *)
(*   [full_text[i:i+chunk_size] for i in range(0, len(full_text), size)]   *)
(***************************************************************************)
EngineChunks(t, size) ==
  LET n == (Len(t) + size - 1) \div size IN
  [k \in 1..n |->
     SubSeq(t, (k - 1) * size + 1,
            IF k * size < Len(t) THEN k * size ELSE Len(t))]

(***************************************************************************)
(* Chunking as a state machine: a text and a maximum length are given,     *)
(* each chunker is applied to them.                                        *)
(***************************************************************************)
\* The value of a result that is not computed yet (no chunk holds "?").
NotRun == << <<"?">> >>

\* The variables of a part of the program that a specification leaves out.
ChunkIdle == text = <<>> /\ max_len = 1 /\ parts = NotRun /\ chunks = NotRun
NoResult == [vulnerabilities |-> <<>>, ofcs |-> <<>>]
ExtractIdle ==
  /\ path = "engine" /\ n_chunks = 0 /\ outcomes = <<>>
  /\ all_results = <<>> /\ merged = NoResult
NoCos == [p \in {} |-> 0]
NoResults == [vulnerabilities |-> <<>>, ofcs |-> <<>>, links |-> <<>>]
LinkIdle ==
  /\ st_available = FALSE /\ memory = <<>> /\ cos = NoCos
  /\ learned = <<>> /\ new_links = <<>> /\ runs = 0
SubmitIdle ==
  /\ vuln_rows = <<>> /\ ofc_rows = <<>> /\ link_rows = <<>>
  /\ results = NoResults
  /\ dry_run = FALSE /\ src_rows = <<>> /\ ofc_src_rows = <<>> /\ posts = <<>>
ParIdle == proc = <<>>
AcqIdle == acq = <<>>
SegIdle == doc = <<>> /\ segments = NotRun
DedIdle == dedup = <<>>
ScanIdle == scan = <<>>
ReqIdle == folders = <<>> /\ req = <<>> /\ updates = <<>>
EmbIdle == embed = <<>>
MultiIdle == multi = <<>>
BatchIdle == subs = <<>> /\ batch = <<>>
WatchIdle == watch = <<>>
LateIdle ==
  ScanIdle /\ ReqIdle /\ EmbIdle /\ MultiIdle /\ BatchIdle /\ WatchIdle
AuxIdle == ParIdle /\ AcqIdle /\ SegIdle /\ DedIdle /\ LateIdle

InitChunk ==
  /\ pc = "chunk"
  /\ text \in SeqsUpTo(ChunkAlphabet, MaxTextLen)
  /\ max_len \in 1..MaxChunkLen
  /\ parts = NotRun
  /\ chunks = NotRun
  /\ ExtractIdle
  /\ LinkIdle
  /\ SubmitIdle
  /\ AuxIdle

ChunkText ==
  /\ pc = "chunk"
  /\ parts = NotRun
  /\ parts' = chunk_text(text, max_len)
  /\ UNCHANGED <<pc, text, max_len, chunks, extractVars, pipeVars>>

EngineChunk ==
  /\ pc = "chunk"
  /\ chunks = NotRun
  /\ chunks' = EngineChunks(text, max_len)
  /\ UNCHANGED <<pc, text, max_len, parts, extractVars, pipeVars>>

NextChunk == ChunkText \/ EngineChunk

SpecChunk == InitChunk /\ [][NextChunk]_vars

(***************************************************************************)
(* Extraction as a state machine: the chunk loop of either path, one model *)
(* call per step, then the path's merge.                                   *)
(***************************************************************************)
InitExtract ==
  /\ pc = "extract"
  /\ path \in {"engine", "parser"}
  /\ n_chunks \in 1..MaxChunks
  /\ outcomes = <<>>
  /\ all_results = <<>>
  /\ merged = NoResult
  /\ ChunkIdle
  /\ LinkIdle
  /\ SubmitIdle
  /\ AuxIdle

\* One iteration of the loop of process_text_with_vofc_engine.  A number
\* passes "if res:" and is then iterated: the TypeError leaves the loop.
CallOllama ==
  /\ pc = "extract" /\ path = "engine"
  /\ Len(outcomes) < n_chunks
  /\ \E outcome \in EngineOutcomes :
       /\ outcomes' = Append(outcomes, outcome)
       /\ IF outcome.kind = "number"
          THEN pc' = "raised" /\ UNCHANGED all_results
          ELSE /\ pc' = pc
               /\ all_results' = AfterCall(all_results, call_ollama(outcome))
  /\ UNCHANGED <<path, n_chunks, merged, chunkVars, pipeVars>>

\* merged = merge_vofc_results(all_results), after the last chunk.
MergeEngine ==
  /\ pc = "extract" /\ path = "engine"
  /\ Len(outcomes) = n_chunks
  /\ merged' = merge_vofc_results(all_results)
  /\ pc' = "link"
  /\ UNCHANGED <<path, n_chunks, outcomes, all_results, chunkVars, pipeVars>>

\* One iteration of the loop of parse_text_to_vofc.
Generate ==
  /\ pc = "extract" /\ path = "parser"
  /\ Len(outcomes) < n_chunks
  /\ \E outcome \in ParserOutcomes :
       /\ outcomes' = Append(outcomes, outcome)
       /\ all_results' = AfterGenerate(all_results, outcome)
  /\ UNCHANGED <<pc, path, n_chunks, merged, chunkVars, pipeVars>>

\* return merge_vofc_results(results)
MergeParser ==
  /\ pc = "extract" /\ path = "parser"
  /\ Len(outcomes) = n_chunks
  /\ merged' = parser_merge_vofc_results(all_results)
  /\ pc' = "parsed"
  /\ UNCHANGED <<path, n_chunks, outcomes, all_results, chunkVars, pipeVars>>

NextExtract == CallOllama \/ MergeEngine \/ Generate \/ MergeParser

SpecExtract == InitExtract /\ [][NextExtract]_vars

(***************************************************************************)
(* Properties of the extraction loops and of merge_vofc_results.           *)
(***************************************************************************)
\* The answers of the chunks whose model call succeeded, in chunk order.
RECURSIVE SuccessValues(_)
SuccessValues(outs) ==
  IF outs = <<>> THEN <<>>
  ELSE IF Head(outs).kind \in {"list", "dict"}
       THEN <<Head(outs).value>> \o SuccessValues(Tail(outs))
       ELSE SuccessValues(Tail(outs))

RECURSIVE DictValues(_)
DictValues(outs) ==
  IF outs = <<>> THEN <<>>
  ELSE IF Head(outs).kind = "dict"
       THEN <<Head(outs).value>> \o DictValues(Tail(outs))
       ELSE DictValues(Tail(outs))

\* C3: a chunk whose model call times out, errors or returns unparseable
\* content never ends the chunk loop (only an answer that is a bare JSON
\* number does, which is none of these); when the loop is over every chunk
\* was sent to the model and the merged result is the merge of the answers
\* of the successful chunks alone, in both extraction paths.
C3_ChunkFailureIsolation ==
  /\ pc = "raised" =>
       /\ outcomes[Len(outcomes)].kind = "number"
       /\ \A k \in 1..(Len(outcomes) - 1) : outcomes[k].kind # "number"
  /\ (pc = "extract" /\ outcomes # <<>>) =>
       outcomes[Len(outcomes)].kind # "number"
  /\ (pc = "link" /\ path = "engine") =>
       /\ Len(outcomes) = n_chunks
       /\ LET m == merge_vofc_results(SuccessValues(outcomes)) IN
          /\ merged.vulnerabilities = m.vulnerabilities
          /\ merged.ofcs = m.ofcs
  /\ pc = "parsed" =>
       /\ Len(outcomes) = n_chunks
       /\ merged = parser_merge_vofc_results(DictValues(outcomes))

\* C3 witness: chunk 2 of 3 timed out, chunks 1 and 3 are both in the result.
C3_Witness ==
  /\ pc = "link" /\ path = "engine" /\ n_chunks = 3
  /\ outcomes[1].kind = "list" /\ outcomes[2].kind = "timeout"
  /\ outcomes[3].kind = "list"
  /\ Len(all_results) = 2
  /\ Len(merged.vulnerabilities) = 2

\* seq without its j-th element
RemoveAt(seq, j) == SubSeq(seq, 1, j - 1) \o SubSeq(seq, j + 1, Len(seq))

Range(seq) == {seq[i] : i \in 1..Len(seq)}

\* <<number of vulnerabilities, number of OFCs>> of a merge result
Counts(m) == <<Len(m.vulnerabilities), Len(m.ofcs)>>

\* The items of an entry that merge_vofc_results does not skip.
Titled(entry) ==
  SelectSeq(entry, LAMBDA it : IsDict(it) /\ it.vulnerability # <<>>)

\* The dedup keys and the normalized option titles of an entry.
EntryKeys(entry) == {DedupKey(it) : it \in Range(Titled(entry))}
OfcKeys(entry) ==
  UNION {{normalize_text(Strip(it.ofcs[k])) : k \in 1..Len(it.ofcs)} :
           it \in Range(Titled(entry))}

\* ratio(a.lower(), b.lower()) > 0.8, as is_duplicate tests a new key a
\* against an existing key b
SimKey(a, b) == DupRatioAbove(a, b, DupThreshold)

\* e2 is another chunk result whose vulnerabilities all have a dedup key
\* within 0.8 of a dedup key of e1, and whose options repeat options of e1.
SimilarEntries(e1, e2) ==
  /\ e2 # e1
  /\ Titled(e2) = e2
  /\ \A x \in EntryKeys(e2) : \E y \in EntryKeys(e1) : SimKey(x, y)
  /\ OfcKeys(e2) \subseteq OfcKeys(e1)

\* The dedup keys of entry i that are keys of vuln_map once entry i is merged.
RetainedKeys(rl, i) ==
  EntryKeys(rl[i])
    \cap Range(MapKeys(MergeLoop(MergeStart, SubSeq(rl, 1, i)).vuln_map))

\* As SimilarEntries, with the keys of rl[j] within 0.8 of retained keys of
\* rl[i].
SimilarToRetained(rl, i, j) ==
  /\ rl[j] # rl[i]
  /\ Titled(rl[j]) = rl[j]
  /\ \A x \in EntryKeys(rl[j]) : \E y \in RetainedKeys(rl, i) : SimKey(x, y)
  /\ OfcKeys(rl[j]) \subseteq OfcKeys(rl[i])

MergeDone == pc = "link" /\ path = "engine"

\* C7 as claimed: a chunk result that repeats an earlier one, or whose
\* vulnerabilities have dedup keys within 0.8 of an earlier one's, adds no
\* vulnerability and no OFC: the counts are those of the merge without it.
C7_DedupIdempotenceAsClaimed ==
  MergeDone =>
    \A j \in 1..Len(all_results) : \A i \in 1..(j - 1) :
      (all_results[j] = all_results[i]
         \/ SimilarEntries(all_results[i], all_results[j]))
      => Counts(merged) = Counts(merge_vofc_results(RemoveAt(all_results, j)))

\* C7 (amended): a chunk result that repeats an earlier one adds no
\* vulnerability and no OFC; neither does one whose options repeat the
\* earlier one's and whose dedup keys are all within 0.8 of a key the merge
\* retained from the earlier one.
C7_DedupIdempotence ==
  MergeDone =>
    \A j \in 1..Len(all_results) : \A i \in 1..(j - 1) :
      (all_results[j] = all_results[i] \/ SimilarToRetained(all_results, i, j))
      => Counts(merged) = Counts(merge_vofc_results(RemoveAt(all_results, j)))

\* C7 witness: a merge of a list in which a chunk result is repeated and
\* another one is similar to retained keys of an earlier one.
C7_Witness ==
  /\ MergeDone
  /\ Len(all_results) = 3
  /\ all_results[2] = all_results[1]
  /\ SimilarToRetained(all_results, 1, 3)
  /\ Len(merged.vulnerabilities) = 1
  /\ Len(merged.ofcs) = 1

\* The permutations of 1..n, and a list permuted by one.
Perms(n) == {f \in [1..n -> 1..n] : \A a, b \in 1..n : a # b => f[a] # f[b]}
Permuted(rl, f) == [k \in 1..Len(rl) |-> rl[f[k]]]

\* The duplicate classes of the merge of rl permuted by f: the sets of
\* items <<entry, item>> of rl that got the same vuln_id.
Grouping(rl, f) ==
  LET ids == merge_vofc_results(Permuted(rl, f)).vuln_ids
      pos == Concat([k \in 1..Len(rl) |->
                       [t \in 1..Len(rl[f[k]]) |-> <<f[k], t>>]])
  IN {{pos[x] : x \in {y \in 1..Len(ids) : ids[y] = id}} :
        id \in Range(ids) \ {NoId}}

\* The merges of all permutations of the chunk results agree on the number
\* of vulnerabilities and on the duplicate classes.
OrderIndependent ==
  \A f \in Perms(Len(all_results)) :
    /\ Len(merge_vofc_results(Permuted(all_results, f)).vulnerabilities)
         = Len(merged.vulnerabilities)
    /\ Grouping(all_results, f)
         = Grouping(all_results, [k \in 1..Len(all_results) |-> k])

\* "ratio above 0.8" is symmetric and transitive on the dedup keys of rl.
KeysOf(rl) == UNION {EntryKeys(rl[i]) : i \in 1..Len(rl)}
KeysEquivalence(rl) ==
  \A a, b, c \in KeysOf(rl) :
    /\ SimKey(a, b) => SimKey(b, a)
    /\ (SimKey(a, b) /\ SimKey(b, c)) => SimKey(a, c)

\* C8 as claimed: every order of the chunk results gives the same number of
\* vulnerabilities and the same duplicate classes, whatever relation the
\* 0.8 threshold induces on the keys.
C8_MergeCommutativeAsClaimed == MergeDone => OrderIndependent

\* C8 (amended): every order of the chunk results gives the same number of
\* vulnerabilities and the same duplicate classes when "ratio above 0.8" is
\* symmetric and transitive on the dedup keys of the list.
C8_MergeCommutative ==
  (MergeDone /\ KeysEquivalence(all_results)) => OrderIndependent

\* C8 witness: three different chunk results with an equivalence on their
\* keys, two of them in one duplicate class.
C8_Witness ==
  /\ MergeDone
  /\ KeysEquivalence(all_results)
  /\ Len(all_results) = 3
  /\ Cardinality(Range(all_results)) = 3
  /\ Len(merged.vulnerabilities) = 2
  /\ \E g \in Grouping(all_results, [k \in 1..3 |-> k]) : Cardinality(g) >= 2

(***************************************************************************)
(* Properties of the chunkers.                                             *)
(***************************************************************************)
\* The cut between positions k and k + 1 of t lies inside a line: neither
\* neighbour of the cut is a line break.
CutInsideLine(t, k) == k >= 1 /\ k < Len(t) /\ t[k] # NL /\ t[k + 1] # NL

\* The lines held by the chunks of chunk_text, chunk after chunk.
RECURSIVE LinesOfParts(_)
LinesOfParts(ps) ==
  IF ps = <<>> THEN <<>> ELSE SplitOn(Head(ps), NL) \o LinesOfParts(Tail(ps))

\* chunk_text keeps every line whole, in exactly one chunk and in order.
ChunkTextKeepsLines == parts # NotRun => LinesOfParts(parts) = SplitLines(text)

\* The engine's slices keep every line whole.
EngineKeepsLines ==
  chunks # NotRun =>
    \A i \in 1..(Len(chunks) - 1) :
      ~CutInsideLine(text, SumLen(SubSeq(chunks, 1, i)))

\* C4: no boundary between two consecutive chunks falls inside a source
\* line, for chunk_text and for the chunking of
\* process_text_with_vofc_engine.
C4_ChunkBoundaryInvariant == ChunkTextKeepsLines /\ EngineKeepsLines

\* C5: concatenating the chunks in order, with the line break between
\* consecutive chunks of chunk_text put back, gives the original text,
\* empty lines and a trailing line break included.
C5_ChunkRoundTrip ==
  /\ parts # NotRun => Join(parts, <<NL>>) = text
  /\ chunks # NotRun => Concat(chunks) = text

\* C6: every chunk is at most max_len (chunk_size) characters long.
C6_ChunkSizeBound ==
  /\ parts # NotRun => \A i \in 1..Len(parts) : Len(parts[i]) <= max_len
  /\ chunks # NotRun => \A i \in 1..Len(chunks) : Len(chunks[i]) <= max_len

(***************************************************************************)
(* link_vulns_to_ofcs (pipeline/heuristic_pipeline.py).                    *)
(* A line of the memory file is [vulnerability, ofc, similarity,           *)
(* reinforced]: the two titles, the similarity in hundredths, and whether  *)
(* the line carries "reinforced": true.  The embedding model is outside    *)
(* the program: the cosine similarity of a pair of texts is chosen when    *)
(* the pair is first encoded and stays the same afterwards.                *)
(***************************************************************************)
\* sim > 0.55 of the fresh pass, learned_map[key] > 0.65 of the
\* reinforcement pass, in hundredths
LinkThreshold == 55
ReinforceThreshold == 65

\* The similarities the embedding model can give, in hundredths.
SimValues == {40, 60, 70}

\* vuln_texts / ofc_texts: the texts that are encoded (an OFC of the merge
\* always has a title)
VulnEmbText(v) == IF v.description # <<>> THEN v.description ELSE v.title
OfcEmbText(o) == o.title

\* The text pairs of a merged result whose similarity is computed.
EmbPairs(m) ==
  {<<VulnEmbText(m.vulnerabilities[i]), OfcEmbText(m.ofcs[j])>> :
     i \in 1..Len(m.vulnerabilities), j \in 1..Len(m.ofcs)}

\* float(score) of vulnerability v and OFC o
CosSim(c, v, o) == c[<<VulnEmbText(v), OfcEmbText(o)>>]

NewLink(v, o, sim, r) ==
  [vulnerability |-> v.title, ofc |-> o.title, similarity |-> sim,
   reinforced |-> r]

\* One pair of the fresh pass with its similarity: above 0.55 the OFC is
\* linked to v and the pair is recorded.
FreshPair(st, v, j, sim) ==
  IF sim > LinkThreshold
  THEN [ofcs |-> [st.ofcs EXCEPT ![j].linked_vulnerability = v.id],
        new_links |-> Append(st.new_links, NewLink(v, st.ofcs[j], sim, FALSE))]
  ELSE st

\* The fresh pass, inner loop: the OFCs from the j-th on against v.
RECURSIVE FreshInner(_, _, _, _)
FreshInner(st, v, j, c) ==
  IF j > Len(st.ofcs) THEN st
  ELSE FreshInner(FreshPair(st, v, j, CosSim(c, v, st.ofcs[j])), v, j + 1, c)

\* The fresh pass, outer loop over the vulnerabilities.
RECURSIVE FreshPass(_, _, _)
FreshPass(st, vulns, c) ==
  IF vulns = <<>> THEN st
  ELSE FreshPass(FreshInner(st, Head(vulns), 1, c), Tail(vulns), c)

\* The key of a memory line and of a pair in learned_map.
LinkKey(vt, ot) == <<normalize_text(vt), normalize_text(ot)>>

\* The similarity of the last of the lines idx of ls, 0 when there is none.
LastSimilarity(ls, idx) ==
  IF idx = {} THEN 0
  ELSE ls[CHOOSE i \in idx : \A k \in idx : k <= i].similarity

\* learned_map as the dict comprehension builds it: a later line of the
\* file replaces an earlier line with the same key.  0 stands for a key
\* that is not in the map.
LearnedMap(ls, key) ==
  LastSimilarity(ls, {i \in 1..Len(ls) :
                        LinkKey(ls[i].vulnerability, ls[i].ofc) = key})

\* One pair of the reinforcement pass with the similarity learned_map has
\* for it: above 0.65 the OFC is linked to v and the pair is recorded.
ReinforcePair(st, j, v, sim) ==
  IF sim > ReinforceThreshold
  THEN [ofcs |-> [st.ofcs EXCEPT ![j].linked_vulnerability = v.id],
        new_links |-> Append(st.new_links, NewLink(v, st.ofcs[j], sim, TRUE))]
  ELSE st

\* The reinforcement pass, inner loop: the vulnerabilities against OFC j.
RECURSIVE ReinforceInner(_, _, _, _)
ReinforceInner(st, j, vulns, ls) ==
  IF vulns = <<>> THEN st
  ELSE ReinforceInner(
         ReinforcePair(st, j, Head(vulns),
                       LearnedMap(ls, LinkKey(Head(vulns).title, st.ofcs[j].title))),
         j, Tail(vulns), ls)

\* The reinforcement pass, outer loop over the OFCs from the j-th on.
RECURSIVE ReinforcePass(_, _, _, _)
ReinforcePass(st, j, vulns, ls) ==
  IF j > Len(st.ofcs) THEN st
  ELSE ReinforcePass(ReinforceInner(st, j, vulns, ls), j + 1, vulns, ls)

\* The memory file opened for writing anew: what the file would hold if the
\* lines of the run replaced it.
AppendLinksRewrite(mem, links) == links

\* The memory file after open(memory_file, "a") and one line written per
\* link of new_links; nothing is written for an empty new_links.
AppendLinks(mem, links) == IF links # <<>> THEN mem \o links ELSE mem

\* sum(1 for o in merged["ofcs"] if o.get("linked_vulnerability"))
LinkedCount(ofcs) ==
  Cardinality({j \in 1..Len(ofcs) : ofcs[j].linked_vulnerability # NoId})

(***************************************************************************)
(* process_submission (pipeline/heuristic_pipeline.py): the rows built     *)
(* from the merged result and the resolution of every OFC's vulnerability. *)
(* The [:n] truncations of the row fields are longer than any text here.   *)
(* An empty text stands for None in the optional fields of a row.          *)
(***************************************************************************)
\* score > 0.3 of the best-match search, in hundredths
MatchThreshold == 30

LabelQuestion == <<"Q", "U", "E", "S", "T", "I", "O", "N", ":", " ">>
LabelWhat == <<"W", "H", "A", "T", ":", " ">>
LabelSoWhat == <<"S", "O", " ", "W", "H", "A", "T", ":", " ">>
Unspecified == <<"U", "n", "s", "p", "e", "c", "i", "f", "i", "e", "d", " ", "v", "u", "l", "n", "e", "r", "a", "b", "i", "l", "i", "t", "y">>

\* A labelled part of the text, when its text is present.
LabelledPart(label, t) == IF t # <<>> THEN <<label \o t>> ELSE <<>>

\* "\n\n".join(vulnerability_parts), the fallback text when there is none
JoinParts(vulnerability_parts, fallback) ==
  IF vulnerability_parts = <<>> THEN fallback
  ELSE Join(vulnerability_parts, <<NL, NL>>)

\* full_vulnerability_text: the labelled parts that are present joined by
\* an empty line, or the fallback text when there is none
FullVulnerabilityText(question, what, so_what, fallback) ==
  JoinParts(LabelledPart(LabelQuestion, question)
              \o LabelledPart(LabelWhat, what)
              \o LabelledPart(LabelSoWhat, so_what),
            fallback)

\* vul_raw = vuln.get("title", "") or vuln.get("description", "")
VulRaw(v) == IF v.title # <<>> THEN v.title ELSE v.description

\* The row appended to vuln_rows for a vulnerability of the merged result.
VulnRow(v, fallback) ==
  [id |-> v.id,
   vulnerability_text |-> FullVulnerabilityText(v.question, v.what, v.so_what, fallback),
   question |-> v.question, what |-> v.what, so_what |-> v.so_what]

\* The entry appended to results["vulnerabilities"].
ResultVuln(v) ==
  [id |-> v.id, question |-> v.question, what |-> v.what, so_what |-> v.so_what,
   text |-> FullVulnerabilityText(v.question, v.what, v.so_what, VulRaw(v))]

\* The placeholder row: id, text and default discipline only.
PlaceholderRow(id) == [id |-> id, vulnerability_text |-> Unspecified]

\* vuln_text = f"{question} {what} {so_what}"
VulnMatchText(v) == v.question \o <<" ">> \o v.what \o <<" ">> \o v.so_what

\* similarity(option_text, vuln_text) of the pool's texts, computed once.
PoolItems == {ItA, ItB, ItC, ItG1, ItG2, ItG3}
PoolOptions == {Strip(OptLock), Strip(OptLock2), Strip(OptFix)}
PoolVulnTexts ==
  {Strip(it.question) \o <<" ">> \o Strip(it.what) \o <<" ">> \o Strip(it.so_what) :
     it \in PoolItems}
MatchRatios ==
  [p \in PoolOptions \X PoolVulnTexts |-> similarity(p[1], p[2])] @@ <<>>

\* score = similarity(option_text, vuln_text), as a fraction
PairScore(option_text, t) ==
  IF option_text \in PoolOptions /\ t \in PoolVulnTexts
  THEN MatchRatios[<<option_text, t>>]
  ELSE similarity(option_text, t)

MatchScore(option_text, v) == PairScore(option_text, VulnMatchText(v))

\* r1 > r2 for two fractions
FracAbove(r1, r2) == r1[1] * r2[2] > r2[1] * r1[2]

\* The best-match loop from (best_score, best_match): a vulnerability
\* replaces the best one when its score is above the best score and above
\* the threshold.
RECURSIVE BestMatchLoop(_, _, _, _)
RECURSIVE BestMatchStep(_, _, _, _, _)
BestMatchStep(option_text, vulns, best_score, best_match, score) ==
  IF FracAbove(score, best_score) /\ RatioAbove(score, MatchThreshold, 100)
  THEN BestMatchLoop(option_text, Tail(vulns), score, Head(vulns).id)
  ELSE BestMatchLoop(option_text, Tail(vulns), best_score, best_match)

BestMatchLoop(option_text, vulns, best_score, best_match) ==
  IF vulns = <<>> THEN best_match
  ELSE BestMatchStep(option_text, vulns, best_score, best_match,
                     MatchScore(option_text, Head(vulns)))

\* The search that takes the first vulnerability above the threshold.
RECURSIVE BestMatchFirst(_, _)
BestMatchFirst(option_text, vulns) ==
  IF vulns = <<>> THEN NoId
  ELSE IF RatioAbove(MatchScore(option_text, Head(vulns)), MatchThreshold, 100)
       THEN Head(vulns).id
       ELSE BestMatchFirst(option_text, Tail(vulns))

\* best_match after the loop, from best_score = 0.0 and best_match = None
BestMatch(option_text, vulns) ==
  BestMatchLoop(option_text, vulns, <<0, 1>>, NoId)

\* A resolution that leaves the OFC without a vulnerability.
RelinkNone(option_text, m, rows, fresh) == [id |-> NoId, rows |-> rows]

\* A choice that makes a placeholder for every OFC without a match.
RelinkFresh(best_match, rows, fresh) ==
  IF best_match # NoId THEN [id |-> best_match, rows |-> rows]
  ELSE [id |-> fresh, rows |-> Append(rows, PlaceholderRow(fresh))]

\* The choice made for an OFC without a usable link, best_match being the
\* result of the search: the best match, else the first row of vuln_rows,
\* else a placeholder row with a fresh id.
RelinkTo(best_match, rows, fresh) ==
  IF best_match # NoId THEN [id |-> best_match, rows |-> rows]
  ELSE IF rows # <<>> THEN [id |-> rows[1].id, rows |-> rows]
  ELSE [id |-> fresh, rows |-> Append(rows, PlaceholderRow(fresh))]

Relink(option_text, m, rows, fresh) ==
  RelinkTo(BestMatch(option_text, m.vulnerabilities), rows, fresh)

\* The row added by the final check for the first of the merged
\* vulnerabilities hits, none when there is no such vulnerability.
MissingRow(r, m, hits) ==
  IF hits = {} THEN r
  ELSE [r EXCEPT !.rows = Append(@, VulnRow(m.vulnerabilities[FirstIndex(hits)],
                                            Unspecified))]

\* The final check of the branch with a given link: a linked vulnerability
\* that has no row yet gets one from the merged result.
EnsureRow(r, m) ==
  IF \E i \in 1..Len(r.rows) : r.rows[i].id = r.id THEN r
  ELSE MissingRow(r, m, {i \in 1..Len(m.vulnerabilities) :
                           m.vulnerabilities[i].id = r.id})

\* linked_vuln_exists
LinkedVulnExists(m, linked_vuln_id) ==
  \E i \in 1..Len(m.vulnerabilities) : m.vulnerabilities[i].id = linked_vuln_id

\* The branch with a given link: kept when the vulnerability exists, else
\* resolved anew (r); then the final check.
ResolveGiven(ofc, m, rows, r) ==
  EnsureRow(IF LinkedVulnExists(m, ofc.linked_vulnerability)
            THEN [id |-> ofc.linked_vulnerability, rows |-> rows]
            ELSE r, m)

\* linked_vuln_id and vuln_rows after the resolution of one OFC, r being
\* the choice for an OFC without a usable link.
ResolveWith(ofc, m, rows, r) ==
  IF ofc.linked_vulnerability = NoId THEN r ELSE ResolveGiven(ofc, m, rows, r)

Resolve(ofc, m, rows, fresh) ==
  ResolveWith(ofc, m, rows, Relink(ofc.title, m, rows, fresh))

\* _uuid(): an id that no row and no merged object has
FreshId(m, rows) == m.next_id + Len(rows)

(***************************************************************************)
(* The pipeline as a state machine: process_submission, run after run on   *)
(* the same memory file.  The chunk loop of the extraction is taken step   *)
(* by step in SpecExtract; here a run starts from the list of chunk        *)
(* results the loop has collected.                                         *)
(***************************************************************************)
\* The all_results of the documents that are submitted.
RunPool ==
  { <<>>,
    << <<ItC>> >>,
    << <<ItG3>> >>,
    << <<ItG2, ItG1>> >>,
    << <<ItA>>, <<ItB>> >>,
    << <<ItWall, ItBare>>, <<ItG1>> >> }

Init ==
  /\ pc = "ready"
  /\ st_available \in BOOLEAN
  /\ memory = <<>>
  /\ cos = NoCos
  /\ learned = <<>>
  /\ new_links = <<>>
  /\ runs = 0
  /\ SubmitIdle
  /\ ExtractIdle
  /\ ChunkIdle
  /\ AuxIdle

\* process_submission up to merged = merge_vofc_results(all_results) in
\* process_text_with_vofc_engine.
ProcessText ==
  /\ pc \in {"ready", "done", "failed"}
  /\ runs < MaxRuns
  /\ \E rl \in RunPool :
       /\ all_results' = rl
       /\ n_chunks' = Len(rl)
       /\ outcomes' = [k \in 1..Len(rl) |-> [kind |-> "list", value |-> rl[k]]]
       /\ merged' = merge_vofc_results(rl)
  /\ runs' = runs + 1
  /\ learned' = <<>>
  /\ new_links' = <<>>
  /\ vuln_rows' = <<>> /\ ofc_rows' = <<>> /\ link_rows' = <<>>
  /\ results' = NoResults
  /\ dry_run' = FALSE /\ src_rows' = <<>> /\ ofc_src_rows' = <<>> /\ posts' = <<>>
  /\ pc' = "link"
  /\ UNCHANGED <<path, st_available, memory, cos, chunkVars, auxVars>>

\* The early returns without the test of SENTENCE_TRANSFORMERS_AVAILABLE.
EarlyReturnUnchecked(m, available) == m.vulnerabilities = <<>> \/ m.ofcs = <<>>

\* The two early returns of link_vulns_to_ofcs: nothing to link, or no
\* embedding library.
EarlyReturn(m, available) ==
  m.vulnerabilities = <<>> \/ m.ofcs = <<>> \/ ~available

\* link_vulns_to_ofcs: the two early returns, else the memory file is read.
LinkStart ==
  /\ pc = "link"
  /\ IF EarlyReturn(merged, st_available)
     THEN pc' = "linked" /\ UNCHANGED learned
     ELSE pc' = "fresh" /\ learned' = memory
  /\ UNCHANGED <<st_available, memory, cos, new_links, runs,
                 extractVars, chunkVars, auxVars, submitVars>>

\* cos extended by the similarities f of the pairs encoded for the first
\* time.
Encoded(c, f) ==
  [p \in DOMAIN c \cup DOMAIN f |-> IF p \in DOMAIN c THEN c[p] ELSE f[p]]

\* merged and new_links after a pass that ended in st.
PassDone(st) ==
  /\ merged' = [merged EXCEPT !.ofcs = st.ofcs]
  /\ new_links' = st.new_links

\* The texts are encoded and the fresh pass runs.
LinkFresh ==
  /\ pc = "fresh"
  /\ \E f \in [EmbPairs(merged) \ DOMAIN cos -> SimValues] :
       /\ cos' = Encoded(cos, f)
       /\ PassDone(FreshPass([ofcs |-> merged.ofcs, new_links |-> <<>>],
                             merged.vulnerabilities, Encoded(cos, f)))
  /\ pc' = "reinforce"
  /\ UNCHANGED <<st_available, memory, learned, runs,
                 path, n_chunks, outcomes, all_results, chunkVars, auxVars, submitVars>>

\* The reinforcement pass, skipped when nothing was loaded.
LinkReinforce ==
  /\ pc = "reinforce"
  /\ PassDone(IF learned # <<>>
              THEN ReinforcePass([ofcs |-> merged.ofcs, new_links |-> new_links],
                                 1, merged.vulnerabilities, learned)
              ELSE [ofcs |-> merged.ofcs, new_links |-> new_links])
  /\ pc' = "save"
  /\ UNCHANGED <<st_available, memory, cos, learned, runs,
                 path, n_chunks, outcomes, all_results, chunkVars, auxVars, submitVars>>

\* new_links is appended to the memory file and the links are counted.
LinkSave ==
  /\ pc = "save"
  /\ memory' = AppendLinks(memory, new_links)
  /\ merged' = [merged EXCEPT !.links.vuln_ofc = LinkedCount(merged.ofcs)]
  /\ pc' = "linked"
  /\ UNCHANGED <<st_available, cos, learned, new_links, runs,
                 path, n_chunks, outcomes, all_results, chunkVars, auxVars, submitVars>>

\* The loop over the vulnerabilities of the merged result.
BuildVulnRows ==
  /\ pc = "rows"
  /\ vuln_rows' = [i \in 1..Len(merged.vulnerabilities) |->
                     VulnRow(merged.vulnerabilities[i],
                             VulRaw(merged.vulnerabilities[i]))]
  /\ results' = [vulnerabilities |->
                   [i \in 1..Len(merged.vulnerabilities) |->
                      ResultVuln(merged.vulnerabilities[i])],
                 ofcs |-> <<>>, links |-> <<>>]
  /\ pc' = "resolve"
  /\ UNCHANGED <<ofc_rows, link_rows, dry_run, src_rows, ofc_src_rows, posts,
                 linkVars, extractVars, chunkVars, auxVars>>

\* The rows appended for an OFC resolved to r.
AppendRows(ofc, r) ==
  /\ vuln_rows' = r.rows
  /\ ofc_rows' = Append(ofc_rows, [id |-> ofc.id, vulnerability_id |-> r.id,
                                   option_text |-> ofc.title])
  /\ link_rows' = Append(link_rows, [vulnerability_id |-> r.id,
                                     ofc_id |-> ofc.id])
  /\ ofc_src_rows' = ofc_src_rows \o
       [n \in 1..Len(src_rows) |-> [ofc_id |-> ofc.id, source_id |-> src_rows[n].id]]
  /\ results' = [results EXCEPT !.ofcs = Append(@, [text |-> ofc.title])]

\* One iteration of the loop over the OFCs of the merged result.
ResolveOfc ==
  /\ pc = "resolve"
  /\ Len(ofc_rows) < Len(merged.ofcs)
  /\ AppendRows(merged.ofcs[Len(ofc_rows) + 1],
                Resolve(merged.ofcs[Len(ofc_rows) + 1], merged, vuln_rows,
                        FreshId(merged, vuln_rows)))
  /\ UNCHANGED <<pc, dry_run, src_rows, posts, linkVars, extractVars, chunkVars, auxVars>>

\* The four requests with the OFCs sent before the vulnerabilities.
TableOrderOfcsFirst ==
  <<"submission_options_for_consideration", "submission_vulnerabilities",
    "submission_vulnerability_ofc_links", "submission_ofc_sources">>

\* The tables of the four requests after the loops, in the order of the
\* calls.
TableOrder ==
  <<"submission_vulnerabilities", "submission_options_for_consideration",
    "submission_vulnerability_ofc_links", "submission_ofc_sources">>

\* The rows that go to a table.
RowsFor(table) ==
  IF table = "submission_vulnerabilities" THEN vuln_rows
  ELSE IF table = "submission_options_for_consideration" THEN ofc_rows
  ELSE IF table = "submission_vulnerability_ofc_links" THEN link_rows
  ELSE ofc_src_rows

\* The position of the run before the k-th of the four requests and after
\* the last.
PostPc == <<"resolve", "post_ofcs", "post_links", "post_ofc_sources", "return">>

\* A rejected request that is passed over.
AfterPostSwallowed(ok, next) == next

\* _sb_post raises RuntimeError when the status is 400 or above; nothing
\* in process_submission catches it.
AfterPost(ok, next) == IF ok THEN next ELSE "failed"

\* "if not dry_run and rows: _sb_post(table, rows)": the request is sent
\* and answered with ok; without rows or in a dry run nothing is sent.
SbPost(table, rows, dry, next) ==
  IF dry \/ rows = <<>>
  THEN pc' = next /\ posts' = posts
  ELSE \E ok \in BOOLEAN :
         /\ posts' = Append(posts, [table |-> table, rows |-> rows, ok |-> ok])
         /\ pc' = AfterPost(ok, next)

\* The source_meta of a submission, each source as its key.
SourcePool == { <<>>, <<"a", "a">> }

\* src_rows: one row per source whose key was not seen before, with a
\* fresh id (below 0, where no other id is).  The rows the insert answers
\* with are taken to be the rows sent.
RECURSIVE SrcLoop(_, _, _)
SrcLoop(meta, seen_src, rows) ==
  IF meta = <<>> THEN rows
  ELSE IF Head(meta) \in seen_src THEN SrcLoop(Tail(meta), seen_src, rows)
  ELSE SrcLoop(Tail(meta), seen_src \cup {Head(meta)},
               Append(rows, [id |-> 0 - (Len(rows) + 1), source_text |-> Head(meta)]))

SrcRows(meta) == SrcLoop(meta, {}, <<>>)

\* After process_text_with_vofc_engine: the source rows are built and sent.
PostSources ==
  /\ pc = "linked"
  /\ \E dry \in BOOLEAN : \E meta \in SourcePool :
       /\ dry_run' = dry
       /\ src_rows' = SrcRows(meta)
       /\ SbPost("submission_sources", SrcRows(meta), dry, "rows")
  /\ UNCHANGED <<vuln_rows, ofc_rows, link_rows, results, ofc_src_rows,
                 linkVars, extractVars, chunkVars, auxVars>>

\* After the last OFC, the k-th of the four requests.
PostBatch(k) ==
  /\ pc = PostPc[k]
  /\ Len(ofc_rows) = Len(merged.ofcs)
  /\ SbPost(TableOrder[k], RowsFor(TableOrder[k]), dry_run, PostPc[k + 1])
  /\ UNCHANGED <<vuln_rows, ofc_rows, link_rows, results, dry_run, src_rows,
                 ofc_src_rows, linkVars, extractVars, chunkVars, auxVars>>

\* The links are counted and results is returned.
ReturnResults ==
  /\ pc = "return"
  /\ results' = [results EXCEPT !.links = [vuln_ofc |-> Len(link_rows),
                                           ofc_sources |-> Len(ofc_src_rows)]]
  /\ pc' = "done"
  /\ UNCHANGED <<vuln_rows, ofc_rows, link_rows, dry_run, src_rows, ofc_src_rows,
                 posts, linkVars, extractVars, chunkVars, auxVars>>

Next ==
  \/ ProcessText
  \/ LinkStart
  \/ LinkFresh
  \/ LinkReinforce
  \/ LinkSave
  \/ PostSources
  \/ BuildVulnRows
  \/ ResolveOfc
  \/ \E k \in 1..Len(TableOrder) : PostBatch(k)
  \/ ReturnResults

Spec == Init /\ [][Next]_vars

(***************************************************************************)
(* Properties of link_vulns_to_ofcs.                                       *)
(***************************************************************************)
\* The positions of process_submission from the loop over the OFCs on.
AfterRows ==
  {"resolve", "post_ofcs", "post_links", "post_ofc_sources", "return", "done",
   "failed"}

\* The vulnerabilities whose fresh similarity to OFC o is above 0.55.
AboveLink(o) ==
  {i \in 1..Len(merged.vulnerabilities) :
     CosSim(cos, merged.vulnerabilities[i], o) > LinkThreshold}

\* C10: after the fresh pass every OFC that has a vulnerability with a
\* similarity above 0.55 is linked to a vulnerability of maximum similarity
\* among those, whatever the order of the vulnerabilities.
C10_FreshPassLinksMaximum ==
  pc = "reinforce" =>
    \A j \in 1..Len(merged.ofcs) :
      LET o == merged.ofcs[j] IN
      AboveLink(o) # {} =>
        \E i \in AboveLink(o) :
          /\ o.linked_vulnerability = merged.vulnerabilities[i].id
          /\ \A k \in AboveLink(o) :
               CosSim(cos, merged.vulnerabilities[k], o)
                 <= CosSim(cos, merged.vulnerabilities[i], o)

\* Some loaded line for the pair of v and o has a similarity above 0.65.
LearnedAbove(v, o) ==
  \E n \in 1..Len(learned) :
    /\ LinkKey(learned[n].vulnerability, learned[n].ofc) = LinkKey(v.title, o.title)
    /\ learned[n].similarity > ReinforceThreshold

\* C9: after the reinforcement pass, an OFC O1 and a vulnerability V1 whose
\* pair has a loaded line with similarity above 0.65 and whose fresh
\* similarity is at or below 0.55 are linked (O1 to a vulnerability titled
\* V1) and a line with reinforced = true for the pair is about to be
\* appended, also when several lines for the pair were loaded.
C9_ReinforcementOverride ==
  pc = "save" =>
    \A i \in 1..Len(merged.vulnerabilities) : \A j \in 1..Len(merged.ofcs) :
      LET v == merged.vulnerabilities[i]
          o == merged.ofcs[j]
      IN (LearnedAbove(v, o) /\ CosSim(cos, v, o) <= LinkThreshold) =>
           /\ \E k \in 1..Len(merged.vulnerabilities) :
                /\ normalize_text(merged.vulnerabilities[k].title)
                     = normalize_text(v.title)
                /\ o.linked_vulnerability = merged.vulnerabilities[k].id
           /\ \E n \in 1..Len(new_links) :
                /\ new_links[n].reinforced
                /\ LinkKey(new_links[n].vulnerability, new_links[n].ofc)
                     = LinkKey(v.title, o.title)

\* C11: the reinforcement pass runs after the fresh pass and wins: when a
\* loaded line for the pair of a vulnerability V and an OFC O has a
\* similarity above 0.65 and the fresh pass linked O to another vulnerability,
\* O is linked to V once the reinforcement pass has run.
C11_ReinforcementPrecedence ==
  [][(pc = "reinforce" /\ pc' = "save") =>
       \A i \in 1..Len(merged.vulnerabilities) : \A j \in 1..Len(merged.ofcs) :
         (/\ LearnedAbove(merged.vulnerabilities[i], merged.ofcs[j])
          /\ merged.ofcs[j].linked_vulnerability # NoId
          /\ merged.ofcs[j].linked_vulnerability # merged.vulnerabilities[i].id)
           => merged'.ofcs[j].linked_vulnerability = merged.vulnerabilities[i].id]_vars

\* The lines a step has added at the end of the memory file.
Appended == SubSeq(memory', Len(memory) + 1, Len(memory'))

\* C12: the memory file only grows at its end: at every step its previous
\* content is a prefix of its new content; and when a run saves, every pair
\* the fresh pass accepted (similarity above 0.55) and every pair the
\* reinforcement pass accepted is among the lines added by that step.
C12_MemoryAppendOnly ==
  [][/\ Len(memory') >= Len(memory)
     /\ SubSeq(memory', 1, Len(memory)) = memory
     /\ (pc = "save" /\ pc' = "linked") =>
          \A i \in 1..Len(merged.vulnerabilities) : \A j \in 1..Len(merged.ofcs) :
            LET v == merged.vulnerabilities[i]
                o == merged.ofcs[j]
            IN /\ CosSim(cos, v, o) > LinkThreshold =>
                    \E n \in 1..Len(Appended) :
                      Appended[n] = NewLink(v, o, CosSim(cos, v, o), FALSE)
               /\ (learned # <<>>
                     /\ LearnedMap(learned, LinkKey(v.title, o.title))
                          > ReinforceThreshold) =>
                    \E n \in 1..Len(Appended) :
                      Appended[n] = NewLink(v, o,
                                      LearnedMap(learned, LinkKey(v.title, o.title)),
                                      TRUE)]_vars

\* C12 witness: a run that found lines in the memory file has added a fresh
\* and a reinforced line behind them.
C12_Witness ==
  /\ pc = "linked"
  /\ learned # <<>>
  /\ Len(memory) > Len(learned)
  /\ SubSeq(memory, 1, Len(learned)) = learned
  /\ \E n \in Len(learned) + 1..Len(memory) : memory[n].reinforced
  /\ \E n \in Len(learned) + 1..Len(memory) : ~memory[n].reinforced

\* C14: without the embedding library link_vulns_to_ofcs changes nothing:
\* the step that calls it leaves the merged result (vulnerabilities, the link
\* of every OFC, the link count) as the merge made it, loads nothing and
\* leaves the memory file alone; so the file stays as it was and the result
\* handed on is the result of the merge.
C14_NoOpWithoutEmbeddings ==
  (pc \in {"ready", "link", "linked", "rows"} \cup AfterRows /\ ~st_available) =>
    /\ memory = <<>> /\ learned = <<>> /\ new_links = <<>> /\ cos = NoCos
    /\ pc \in {"linked", "rows"} \cup AfterRows =>
         merged = merge_vofc_results(all_results)

\* C14 witness: without the library, a second run on a document with
\* vulnerabilities and OFCs has finished.
C14_Witness ==
  /\ ~st_available
  /\ pc = "done"
  /\ runs = 2
  /\ merged.vulnerabilities # <<>>
  /\ merged.ofcs # <<>>
  /\ merged.links.vuln_ofc = Len(merged.ofcs)

(***************************************************************************)
(* Properties of the orphan-link resolution of process_submission.         *)
(***************************************************************************)
IdsOf(rows) == {rows[i].id : i \in 1..Len(rows)}

Matching(o) ==
  {i \in 1..Len(merged.vulnerabilities) :
     RatioAbove(MatchScore(o.title, merged.vulnerabilities[i]), MatchThreshold, 100)}

\* Vulnerability i has the highest text similarity to o among those in S.
Highest(o, i, S) ==
  \A k \in S : ~FracAbove(MatchScore(o.title, merged.vulnerabilities[k]),
                          MatchScore(o.title, merged.vulnerabilities[i]))

IsPlaceholder(row) == "question" \notin DOMAIN row

\* The vulnerability with id `id` is chosen for OFC o in the fixed order,
\* M being the vulnerabilities that match the text of o.
ChosenInOrder(o, id, M) ==
  IF o.linked_vulnerability # NoId
     /\ o.linked_vulnerability \in IdsOf(merged.vulnerabilities)
  THEN id = o.linked_vulnerability
  ELSE IF M # {}
  THEN \E i \in M :
         /\ id = merged.vulnerabilities[i].id
         /\ Highest(o, i, M)
  ELSE IF merged.vulnerabilities # <<>>
  THEN id = merged.vulnerabilities[1].id
  ELSE /\ id \notin IdsOf(merged.vulnerabilities)
       /\ \E n \in 1..Len(vuln_rows) :
            vuln_rows[n].id = id /\ IsPlaceholder(vuln_rows[n])

\* C2: the vulnerability of every resolved OFC is chosen in a fixed order:
\* its own link when that names a vulnerability of the merged result; else
\* a vulnerability of highest text similarity, when that is above 0.3; else
\* the first vulnerability; else a placeholder, which exists only when the
\* merged result has no vulnerability.
C2_ResolutionOrder ==
  pc \in AfterRows =>
    /\ \A k \in 1..Len(ofc_rows) :
         ChosenInOrder(merged.ofcs[k], ofc_rows[k].vulnerability_id,
                       Matching(merged.ofcs[k]))
    /\ (\E n \in 1..Len(vuln_rows) : IsPlaceholder(vuln_rows[n]))
         => merged.vulnerabilities = <<>>

\* C2 witness: a finished run with two vulnerabilities in which the first
\* OFC had no link and got the second vulnerability, its best match, and
\* the second OFC kept the link the linker gave it although the other
\* vulnerability matches its text better.
C2_Witness ==
  /\ pc = "done"
  /\ Len(merged.vulnerabilities) = 2
  /\ Len(ofc_rows) = 2
  /\ merged.ofcs[1].linked_vulnerability = NoId
  /\ 2 \in Matching(merged.ofcs[1])
  /\ ofc_rows[1].vulnerability_id = merged.vulnerabilities[2].id
  /\ merged.ofcs[2].linked_vulnerability = merged.vulnerabilities[2].id
  /\ ofc_rows[2].vulnerability_id = merged.vulnerabilities[2].id

(***************************************************************************)
(* Properties of the persistence of process_submission.                    *)
(***************************************************************************)
ClaimedOrder ==
  <<"submission_sources", "submission_vulnerabilities",
    "submission_options_for_consideration",
    "submission_vulnerability_ofc_links", "submission_ofc_sources">>

Rank(table) == CHOOSE n \in 1..Len(ClaimedOrder) : ClaimedOrder[n] = table

\* Some request before the j-th has inserted a row with this id in table.
InsertedBefore(j, table, id) ==
  \E i \in 1..(j - 1) :
    /\ posts[i].table = table
    /\ posts[i].ok
    /\ id \in IdsOf(posts[i].rows)

\* C17: the requests of a run go to different tables in the order sources,
\* vulnerabilities, OFCs, links, OFC sources; when the OFC batch is sent the
\* vulnerabilities its rows name have been inserted, and when the link and
\* the OFC-source batch are sent the OFCs (and vulnerabilities, sources)
\* their rows name have been inserted.
C17_PersistenceOrder ==
  /\ \A i \in 1..Len(posts) : \A j \in 1..Len(posts) :
       i < j => Rank(posts[i].table) < Rank(posts[j].table)
  /\ \A j \in 1..Len(posts) : \A n \in 1..Len(posts[j].rows) :
       LET row == posts[j].rows[n] IN
       /\ posts[j].table = "submission_options_for_consideration" =>
            InsertedBefore(j, "submission_vulnerabilities", row.vulnerability_id)
       /\ posts[j].table = "submission_vulnerability_ofc_links" =>
            /\ InsertedBefore(j, "submission_vulnerabilities", row.vulnerability_id)
            /\ InsertedBefore(j, "submission_options_for_consideration", row.ofc_id)
       /\ posts[j].table = "submission_ofc_sources" =>
            /\ InsertedBefore(j, "submission_options_for_consideration", row.ofc_id)
            /\ InsertedBefore(j, "submission_sources", row.source_id)

\* C17 witness: a run has returned after five accepted requests, one per
\* table.
C17_Witness ==
  /\ pc = "done"
  /\ Len(posts) = Len(ClaimedOrder)
  /\ \A n \in 1..Len(posts) : posts[n].ok /\ posts[n].table = ClaimedOrder[n]

\* posts before a step is the beginning of posts after it.
PostsKept ==
  /\ Len(posts') >= Len(posts)
  /\ SubSeq(posts', 1, Len(posts)) = posts

\* C18: a rejected request is the last request of its run and the run has
\* ended with the exception, without the result object (the link counts are
\* never set, nothing is returned); the only step after it is the start of
\* another submission; and within a run no request is taken back, so the
\* batches inserted before the rejected one remain.
C18_PersistenceFailure ==
  /\ [](/\ \A n \in 1..Len(posts) :
             ~posts[n].ok => (n = Len(posts) /\ pc = "failed")
        /\ pc = "failed" =>
             /\ posts # <<>> /\ ~posts[Len(posts)].ok
             /\ results.links = <<>>)
  /\ [][/\ pc = "failed" => pc' = "link"
        /\ pc' # "link" => PostsKept]_vars

\* C18 witness: the third request of a run was rejected after two batches
\* were inserted.
C18_Witness ==
  /\ pc = "failed"
  /\ Len(posts) = 3
  /\ posts[1].ok /\ posts[2].ok /\ ~posts[3].ok

(***************************************************************************)
(* Parallel runs.  heuristic_pipeline.py is run as a script, one operating *)
(* system process per document; the processes share nothing but the memory *)
(* file of link_vulns_to_ofcs.  proc[p] is the link_vulns_to_ofcs call of  *)
(* process p; the function takes no lock and opens no file exclusively, so *)
(* the steps of different processes interleave freely.  Every process      *)
(* handles one document.  The file is read                                 *)
(* as a whole; the appended lines reach it when the buffer of the file     *)
(* object is flushed, which may happen after any line.                     *)
(***************************************************************************)
Procs == 1..MaxProcs

\* The merged results of the documents processed in parallel.
ParPool ==
  { merge_vofc_results(<< <<ItG1>> >>),
    merge_vofc_results(<< <<ItG3>> >>) }

IdleRun ==
  [pc |-> "idle", merged |-> NoResult, learned |-> <<>>, new_links |-> <<>>,
   written |-> 0]

InitParallel ==
  /\ pc = "parallel"
  /\ st_available \in BOOLEAN
  /\ memory = <<>>
  /\ cos = NoCos
  /\ learned = <<>>
  /\ new_links = <<>>
  /\ runs = 0
  /\ proc = [p \in Procs |-> IdleRun]
  /\ AcqIdle
  /\ SegIdle
  /\ DedIdle
  /\ LateIdle
  /\ SubmitIdle
  /\ ExtractIdle
  /\ ChunkIdle

\* merged["links"]["vuln_ofc"] recounted, and the return.
Returned(r) ==
  [r EXCEPT !.merged.links.vuln_ofc = LinkedCount(r.merged.ofcs), !.pc = "done"]

\* A process calls link_vulns_to_ofcs on the merged result of its document:
\* the two early returns, else the function goes on to the memory file.
ParCall(p) ==
  /\ proc[p].pc = "idle"
  /\ \E m \in ParPool :
       proc' = [proc EXCEPT ![p] =
                  IF EarlyReturn(m, st_available)
                  THEN [IdleRun EXCEPT !.merged = m, !.pc = "done"]
                  ELSE [IdleRun EXCEPT !.merged = m, !.pc = "read"]]
  /\ UNCHANGED <<pc, linkVars, chunkVars, extractVars, submitVars, acqVars, segVars, dedVars, lateVars>>

\* The memory file is loaded into learned.
ParRead(p) ==
  /\ proc[p].pc = "read"
  /\ proc' = [proc EXCEPT ![p].learned = memory, ![p].pc = "link"]
  /\ UNCHANGED <<pc, linkVars, chunkVars, extractVars, submitVars, acqVars, segVars, dedVars, lateVars>>

\* The reinforcement pass on the state st the fresh pass left, skipped when
\* nothing was loaded.
Reinforced(st, m, ls) ==
  IF ls # <<>> THEN ReinforcePass(st, 1, m.vulnerabilities, ls) ELSE st

\* Both passes on the merged result m with the loaded lines ls.
LinkPasses(m, ls, c) ==
  Reinforced(FreshPass([ofcs |-> m.ofcs, new_links |-> <<>>], m.vulnerabilities, c),
             m, ls)

\* The run r after the passes ended in st: with new links the file is
\* opened for appending, without any the function returns.
Linked(r, st) ==
  IF st.new_links # <<>>
  THEN [r EXCEPT !.merged.ofcs = st.ofcs, !.new_links = st.new_links,
                 !.pc = "append"]
  ELSE Returned([r EXCEPT !.merged.ofcs = st.ofcs])

\* The texts are encoded and both passes run.
ParLink(p) ==
  /\ proc[p].pc = "link"
  /\ \E f \in [EmbPairs(proc[p].merged) \ DOMAIN cos -> SimValues] :
       /\ cos' = Encoded(cos, f)
       /\ proc' = [proc EXCEPT ![p] =
                     Linked(proc[p], LinkPasses(proc[p].merged, proc[p].learned,
                                                Encoded(cos, f)))]
  /\ UNCHANGED <<pc, st_available, memory, learned, new_links, runs,
                 chunkVars, extractVars, submitVars, acqVars, segVars, dedVars, lateVars>>

\* The run r after n more of its lines have reached the file.
Flushed(r, n) ==
  IF r.written + n = Len(r.new_links)
  THEN Returned([r EXCEPT !.written = @ + n])
  ELSE [r EXCEPT !.written = @ + n]

\* Some of the lines written so far reach the end of the file.
ParFlush(p) ==
  /\ proc[p].pc = "append"
  /\ \E n \in 1..(Len(proc[p].new_links) - proc[p].written) :
       /\ memory' = memory \o SubSeq(proc[p].new_links, proc[p].written + 1,
                                       proc[p].written + n)
       /\ proc' = [proc EXCEPT ![p] = Flushed(proc[p], n)]
  /\ UNCHANGED <<pc, st_available, cos, learned, new_links, runs,
                 chunkVars, extractVars, submitVars, acqVars, segVars, dedVars, lateVars>>

NextParallel ==
  \E p \in Procs : ParCall(p) \/ ParRead(p) \/ ParLink(p) \/ ParFlush(p)

SpecParallel == InitParallel /\ [][NextParallel]_vars

\* Process p is between the load of the memory file and the end of its
\* append.
InReadThenAppend(p) == proc[p].pc \in {"link", "append"}

\* C13: at most one run at a time is between its load of the memory file
\* and the end of its append.
C13_SingleWriter ==
  pc = "parallel" =>
    \A p \in Procs : \A q \in Procs :
      (InReadThenAppend(p) /\ InReadThenAppend(q)) => p = q

(***************************************************************************)
(* Text acquisition: extract_text_from_pdf (pipeline/heuristic_pipeline.py)*)
(* with the script that calls it, and read_file_text                       *)
(* (app/services/vofc_parser.py) with _process_file (app/routes/           *)
(* documents.py).  What a reader library gives for a document is outside   *)
(* the program: every attempt either raises or yields a text.  A text is   *)
(* kept as the strategy it came from, the length of its stripped body and  *)
(* the length of the whitespace around the body.                           *)
(***************************************************************************)
\* len(text.strip()) > 500 of read_file_text, len(text.strip()) > 50 of
\* extract_text_from_pdf
PrimaryMinLen == 500
MinLen == 50

\* The lengths of the stripped bodies and of the surrounding whitespace.
BodyLens == {0, 50, 51, 500, 501}
PadLens == {0, 1}

Txt(by, body, pad) == [kind |-> "text", by |-> by, body |-> body, pad |-> pad]
Raises(by) == [kind |-> "raised", by |-> by, body |-> 0, pad |-> 0]
Unavailable(by) == [kind |-> "unavailable", by |-> by, body |-> 0, pad |-> 0]
EmptyText == Txt("none", 0, 0)
NoText == [kind |-> "none", by |-> "none", body |-> 0, pad |-> 0]

\* len(text) and text.strip()
TextLen(t) == t.body + t.pad
StripText(t) == [t EXCEPT !.pad = 0]

\* What the attempt of strategy by can give.
Attempts(by) == {Raises(by)} \cup {Txt(by, b, w) : b \in BodyLens, w \in PadLens}

\* The strategies of a function in the order of its code.  read_file_text
\* has one reader for every suffix other than .pdf.
Strategies(fn, ext) ==
  IF fn = "extract_text_from_pdf" THEN <<"PyPDF2", "Poppler", "OCR">>
  ELSE IF ext = ".pdf" THEN <<"PyMuPDF", "pdfminer">>
  ELSE <<"read">>

\* "if PdfReader:" and "if pytesseract and convert_from_path:"
IsAvailable(by, lib) ==
  IF by = "PyPDF2" THEN lib.PdfReader
  ELSE IF by = "OCR" THEN lib.pytesseract
  ELSE TRUE

\* Every text that was read is taken.
AcceptedAlways(by, o) == o.kind = "text"

\* The test after which the text of a strategy is returned.
Accepted(by, o) ==
  /\ o.kind = "text"
  /\ IF by \in {"PyPDF2", "Poppler", "OCR"} THEN StripText(o).body > MinLen
     ELSE IF by = "PyMuPDF" THEN StripText(o).body > PrimaryMinLen
     ELSE TRUE

\* The text that is returned: Poppler's output was stripped before the test.
ReturnedText(by, o) == IF by = "Poppler" THEN StripText(o) ELSE o

\* The attempt o of the k-th strategy is over: its text is returned, or the
\* next strategy follows, or the function ends without a strategy left:
\* extract_text_from_pdf raises ValueError, read_file_text returns "".
AfterAttempt(a, by, o) ==
  IF Accepted(by, o)
  THEN [a EXCEPT !.tried = Append(@, o), !.text = ReturnedText(by, o),
                 !.at = "returned"]
  ELSE IF Len(a.tried) + 1 < Len(Strategies(a.fn, a.ext))
  THEN [a EXCEPT !.tried = Append(@, o)]
  ELSE IF a.fn = "extract_text_from_pdf"
  THEN [a EXCEPT !.tried = Append(@, o), !.at = "ValueError"]
  ELSE [a EXCEPT !.tried = Append(@, o), !.text = EmptyText, !.at = "returned"]

InitAcquire ==
  /\ pc = "acquire"
  /\ \E fn \in {"extract_text_from_pdf", "read_file_text"} :
     \E ext \in {".pdf", ".txt"} :
     \E lib \in [PdfReader : BOOLEAN, pytesseract : BOOLEAN] :
       /\ fn = "extract_text_from_pdf" => ext = ".pdf"
       /\ fn = "read_file_text" => lib = [PdfReader |-> TRUE, pytesseract |-> TRUE]
       /\ acq = [fn |-> fn, ext |-> ext, lib |-> lib, tried |-> <<>>,
                 text |-> NoText, at |-> "try", work |-> <<>>,
                 status |-> "pending"]
  /\ ParIdle
  /\ SegIdle
  /\ DedIdle
  /\ LateIdle
  /\ LinkIdle
  /\ SubmitIdle
  /\ ExtractIdle
  /\ ChunkIdle

\* The strategy that is next.
NextStrategy(a) == Strategies(a.fn, a.ext)[Len(a.tried) + 1]

\* The next strategy is tried, or passed over when its library is missing.
Try ==
  /\ acq.at = "try"
  /\ IF IsAvailable(NextStrategy(acq), acq.lib)
     THEN \E o \in Attempts(NextStrategy(acq)) :
            acq' = AfterAttempt(acq, NextStrategy(acq), o)
     ELSE acq' = AfterAttempt(acq, NextStrategy(acq), Unavailable(NextStrategy(acq)))
  /\ UNCHANGED <<pc, chunkVars, extractVars, linkVars, submitVars, parVars, segVars, dedVars, lateVars>>

\* The script: ValueError is not caught, the process ends with a traceback.
ScriptCrash ==
  /\ acq.fn = "extract_text_from_pdf"
  /\ acq.at = "ValueError"
  /\ acq' = [acq EXCEPT !.at = "exit", !.status = "crashed"]
  /\ UNCHANGED <<pc, chunkVars, extractVars, linkVars, submitVars, parVars, segVars, dedVars, lateVars>>

\* The script: exit(1) on a blank text, else process_submission is run on
\* the text and its result printed, unless it raises.
ScriptProcess ==
  /\ acq.fn = "extract_text_from_pdf"
  /\ acq.at = "returned"
  /\ IF StripText(acq.text).body = 0
     THEN acq' = [acq EXCEPT !.at = "exit", !.status = "exit(1)"]
     ELSE \E ok \in BOOLEAN :
            acq' = [acq EXCEPT !.at = "exit",
                               !.work = <<"chunk", "call_ollama", "merge_vofc_results">>,
                               !.status = IF ok THEN "printed" ELSE "crashed"]
  /\ UNCHANGED <<pc, chunkVars, extractVars, linkVars, submitVars, parVars, segVars, dedVars, lateVars>>

\* The stages of parse_text_to_vofc on a text: no line, no chunk.
ParseStages(t) ==
  IF TextLen(t) = 0 THEN <<"chunk_text", "merge_vofc_results">>
  ELSE <<"chunk_text", "generate", "merge_vofc_results">>

\* _process_file: parse_text_to_vofc on whatever read_file_text returned.
Parse ==
  /\ acq.fn = "read_file_text"
  /\ acq.at = "returned"
  /\ acq' = [acq EXCEPT !.at = "parsed", !.work = ParseStages(acq.text)]
  /\ UNCHANGED <<pc, chunkVars, extractVars, linkVars, submitVars, parVars, segVars, dedVars, lateVars>>

\* _process_file: the output is written, the file moved and the submission
\* marked completed; an exception on the way marks it failed.
Complete ==
  /\ acq.at = "parsed"
  /\ \E ok \in BOOLEAN :
       acq' = [acq EXCEPT !.at = "exit",
                          !.status = IF ok THEN "completed" ELSE "failed"]
  /\ UNCHANGED <<pc, chunkVars, extractVars, linkVars, submitVars, parVars, segVars, dedVars, lateVars>>

NextAcquire == Try \/ ScriptCrash \/ ScriptProcess \/ Parse \/ Complete

SpecAcquire == InitAcquire /\ [][NextAcquire]_vars

(***************************************************************************)
(* Properties of text acquisition.                                         *)
(***************************************************************************)
\* The attempts were made in the order of the strategies, none left out.
TriedInOrder ==
  /\ Len(acq.tried) <= Len(Strategies(acq.fn, acq.ext))
  /\ \A n \in 1..Len(acq.tried) :
       acq.tried[n].by = Strategies(acq.fn, acq.ext)[n]

\* The function has returned the text of one of its strategies.
FromStrategy == acq.text.kind = "text" /\ acq.text.by # "none"

\* The attempts that were followed by another attempt or by the end of the
\* function without a text of a strategy.
Rejected ==
  IF FromStrategy
  THEN 1..(Len(acq.tried) - 1)
  ELSE 1..Len(acq.tried)

\* Attempt o gave no text longer than min (surrounding whitespace not
\* counted).
NotAbove(o, min) == o.kind \in {"raised", "unavailable"} \/ o.body <= min

\* The minimum length in the claim: 500 for the first strategy, 50 for
\* every later one.
ClaimedMin(n) == IF n = 1 THEN 500 ELSE 50

\* C15 as claimed: the strategies are tried in their fixed order, a later
\* one only after every earlier one raised or gave a text not above its
\* minimum, and the text returned is that of the first strategy above its
\* minimum: 500 characters for the first strategy, 50 for every later one.
C15_AcquisitionOrderAsClaimed ==
  pc = "acquire" =>
    /\ TriedInOrder
    /\ \A n \in Rejected : NotAbove(acq.tried[n], ClaimedMin(n))
    /\ FromStrategy =>
         /\ acq.text.by = acq.tried[Len(acq.tried)].by
         /\ acq.text.body > ClaimedMin(Len(acq.tried))

\* The minimum length of each strategy in the code; pdfminer and the readers
\* of the other suffixes have none.
CodeMin(by) ==
  IF by = "PyMuPDF" THEN 500
  ELSE IF by \in {"PyPDF2", "Poppler", "OCR"} THEN 50
  ELSE -1

\* C15: the strategies are tried in their fixed order, a later one only
\* after every earlier one was unavailable, raised or gave a text whose
\* stripped length is not above its minimum, and the text returned is that
\* of the first strategy above its minimum.  In extract_text_from_pdf the
\* minimum is 50 for all three strategies; in read_file_text it is 500 for
\* PyMuPDF, and the text of pdfminer is returned whatever its length.
C15_AcquisitionOrder ==
  pc = "acquire" =>
    /\ TriedInOrder
    /\ \A n \in Rejected : NotAbove(acq.tried[n], CodeMin(acq.tried[n].by))
    /\ FromStrategy =>
         /\ acq.tried[Len(acq.tried)].kind = "text"
         /\ acq.text.by = acq.tried[Len(acq.tried)].by
         /\ acq.text.body = acq.tried[Len(acq.tried)].body
         /\ acq.text.body > CodeMin(acq.text.by)

\* C15 witness: extract_text_from_pdf has returned the text of OCR, 51
\* characters long, after the first strategy gave 50 characters and the
\* second raised.
C15_Witness ==
  /\ acq.fn = "extract_text_from_pdf"
  /\ acq.at = "returned"
  /\ Len(acq.tried) = 3
  /\ acq.tried[1].kind = "text" /\ acq.tried[1].body = 50
  /\ acq.tried[2].kind = "raised"
  /\ acq.text.by = "OCR"
  /\ acq.text.body = 51

\* Every strategy was tried and none gave a text: each was unavailable,
\* raised or gave at most 50 characters.
AllFailed ==
  /\ acq.at # "try"
  /\ Len(acq.tried) = Len(Strategies(acq.fn, acq.ext))
  /\ \A n \in 1..Len(acq.tried) : NotAbove(acq.tried[n], MinLen)

\* C16: when every strategy has failed to give usable text the document is
\* not chunked, extracted or merged and is never reported as completed.
C16_AcquisitionFailureFatal ==
  (pc = "acquire" /\ AllFailed) =>
    /\ acq.work = <<>>
    /\ acq.status \notin {"completed", "printed"}

(***************************************************************************)
(* segment_document (pipeline/heuristic_pipeline.py).  A document is a     *)
(* sequence of tokens that stand for its words, separated by one blank:    *)
(* the words of the two patterns, names, plain words, the line break, and  *)
(* a filler that stands for a paragraph of 2000 characters.  The patterns  *)
(* are matched on the tokens as the regular expressions match on the       *)
(* characters; the documents have no two line breaks in a row.             *)
(***************************************************************************)
\* pre[-2000:] and chunks[0][-600:]
LookBack == 2000
GuessTail == 600

Cat == "Category"
Vul == "Vulnerability"
Opt == "Options for Consideration"
Filler == "Long"
\* What is left of a word that a slice has cut.
CutWord == "#"
General == <<"General">>

\* len(word)
TokLen(t) ==
  IF t = Cat THEN 8
  ELSE IF t = Vul THEN 13
  ELSE IF t = Opt THEN 25
  ELSE IF t = Filler THEN 2000
  ELSE IF t \in {NL, "A", "B", CutWord} THEN 1
  ELSE 4

\* len(text) of the words toks, each followed by a blank
RECURSIVE CharLen(_)
CharLen(toks) ==
  IF toks = <<>> THEN 0 ELSE TokLen(Head(toks)) + 1 + CharLen(Tail(toks))

\* The index of the first word of toks that is whole in toks[-limit:].
SliceStart(toks, limit) ==
  CHOOSE k \in 1..(Len(toks) + 1) :
    /\ CharLen(SubSeq(toks, k, Len(toks))) <= limit
    /\ k > 1 => CharLen(SubSeq(toks, k - 1, Len(toks))) > limit

\* toks[-limit:] when its first whole word is the k-th: a word that is cut
\* leaves its tail in front, unless only its blank is left.
SliceFrom(toks, limit, k) ==
  IF k > 1 /\ limit - CharLen(SubSeq(toks, k, Len(toks))) >= 2
  THEN <<CutWord>> \o SubSeq(toks, k, Len(toks))
  ELSE SubSeq(toks, k, Len(toks))

\* toks[-limit:]
LastChars(toks, limit) == SliceFrom(toks, limit, SliceStart(toks, limit))

\* The index of the first word from a on that is no line break, 0 if none.
FirstNonNL(w, a) ==
  IF \E x \in a..Len(w) : w[x] # NL
  THEN CHOOSE x \in a..Len(w) : w[x] # NL /\ \A y \in a..(x - 1) : w[y] = NL
  ELSE 0

\* The next word that is no line break is word t.
NextIs(w, a, t) == FirstNonNL(w, a) # 0 /\ w[FirstNonNL(w, a)] = t

\* ([^\n]+?)\s+Vulnerability for a name that starts at n1: the ends the
\* name can have.
NameEnds(w, n1) ==
  {m \in n1..Len(w) : (\A x \in n1..m : w[x] # NL) /\ NextIs(w, m + 1, Vul)}

\* The least of a set of numbers, 0 for the empty set.
Least(S) == IF S = {} THEN 0 ELSE CHOOSE x \in S : \A y \in S : x <= y

\* CATEGORY_SPLIT matches with its "Category" at c: at the start of the
\* text or after a line break, followed by a name and "Vulnerability".
CategoryAt(w, c) ==
  /\ w[c] = Cat
  /\ c = 1 \/ w[c - 1] = NL
  /\ FirstNonNL(w, c + 1) # 0
  /\ NameEnds(w, FirstNonNL(w, c + 1)) # {}

\* group(1) of the match at c, and the index of its last word.
CategoryName(w, n1) == SubSeq(w, n1, Least(NameEnds(w, n1)))
CategoryEnd(w, n1) == FirstNonNL(w, Least(NameEnds(w, n1)) + 1)

\* list(CATEGORY_SPLIT.finditer(w))[-1].group(1) for the matches from p on,
\* last when there is none.
RECURSIVE LastCategory(_, _, _)
LastCategoryFrom(w, c, last) ==
  IF c = 0 THEN last
  ELSE LastCategory(w, CategoryEnd(w, FirstNonNL(w, c + 1)) + 1,
                    CategoryName(w, FirstNonNL(w, c + 1)))
LastCategory(w, p, last) ==
  LastCategoryFrom(w, Least({c \in p..Len(w) : CategoryAt(w, c)}), last)

\* The lookahead (?:\n\s*Category\s+) at word k.
CategoryAhead(d, k) ==
  /\ k <= Len(d)
  /\ d[k] = NL
  /\ NextIs(d, k + 1, Cat)
  /\ FirstNonNL(d, k + 1) < Len(d)

\* The match of VULN_OFCS_RE that starts with the "Vulnerability" at v:
\* group 1 ends before the next "Options for Consideration" at o, group 2
\* ends with word e, before a line that starts with "Category" or at the
\* end of the document.
SpanFrom(d, v, o) ==
  [v |-> v, o |-> o,
   e |-> Least({e \in o..Len(d) : e = Len(d) \/ CategoryAhead(d, e + 1)})]
SpanAt(d, v) == SpanFrom(d, v, Least({o \in (v + 1)..Len(d) : d[o] = Opt}))

\* VULN_OFCS_RE.finditer(doc) from word p on.
RECURSIVE Spans(_, _)
SpansFrom(d, sp) == <<sp>> \o Spans(d, sp.e + 1)
SpansAt(d, v) == IF v = 0 THEN <<>> ELSE SpansFrom(d, SpanAt(d, v))
Spans(d, p) ==
  SpansAt(d, Least({v \in p..Len(d) :
                      d[v] = Vul /\ \E o \in (v + 1)..Len(d) : d[o] = Opt}))

\* _clean_line: the whitespace between the words becomes one blank.
IsWord(t) == t # NL
clean_line(toks) == SelectSeq(toks, IsWord)

\* The category of the span that starts at v, looked up in the text before
\* it.
CategoryBefore(d, v) ==
  LastCategory(LastChars(SubSeq(d, 1, v - 1), LookBack), 1, General)

\* The entry of results for a match.
Segment(d, sp) ==
  [category |-> CategoryBefore(d, sp.v),
   vulnerability |-> clean_line(SubSeq(d, sp.v + 1, sp.o - 1)),
   ofc_block |-> SubSeq(d, sp.o + 1, sp.e)]

\* The fallback split: "Options for Consideration" on a line of its own.
Separators(d) ==
  {o \in 1..(Len(d) - 1) : d[o] = Opt /\ (o = 1 \/ d[o - 1] = NL) /\ d[o + 1] = NL}

\* The entry guessed around the first separator o: chunks[0] ends before
\* the line break in front of o, chunks[1] ends before the next separator.
Guess(d, o, next) ==
  << [category |-> General,
      vulnerability |->
        clean_line(LastChars(SubSeq(d, 1, o - 2), GuessTail)),
      ofc_block |->
        SubSeq(d, o + 2, IF next = 0 THEN Len(d) ELSE next - 2)] >>

Fallback(d, o) ==
  IF o = 0 THEN <<>> ELSE Guess(d, o, Least(Separators(d) \ {o}))

Segmented(d, spans) ==
  IF spans # <<>> THEN [n \in 1..Len(spans) |-> Segment(d, spans[n])]
  ELSE Fallback(d, Least(Separators(d)))

segment_document(d) == Segmented(d, Spans(d, 1))

\* The pieces the documents are made of.
BlockPool ==
  { <<Cat, "A", Vul, "gate", Opt, "lamp">>,
    <<NL, Cat, "B", Vul, "wall", Opt, "lock">>,
    <<Vul, "door", Opt, "bell">>,
    <<Filler>>,
    <<NL, Opt, NL, "sign">>,
    <<NL, Cat, "A", Vul, "roof">> }

InitSegment ==
  /\ pc = "segment"
  /\ doc \in {Concat(bs) : bs \in SeqsUpTo(BlockPool, MaxBlocks)}
  /\ segments = NotRun
  /\ DedIdle
  /\ LateIdle
  /\ ParIdle
  /\ AcqIdle
  /\ LinkIdle
  /\ SubmitIdle
  /\ ExtractIdle
  /\ ChunkIdle

SegmentDocument ==
  /\ pc = "segment"
  /\ segments' = segment_document(doc)
  /\ pc' = "segmented"
  /\ UNCHANGED <<doc, chunkVars, extractVars, linkVars, submitVars, parVars, acqVars, dedVars, lateVars>>

NextSegment == SegmentDocument

SpecSegment == InitSegment /\ [][NextSegment]_vars

\* The markers "Category <name> Vulnerability" of a document whose
\* "Vulnerability" is at or before word v and that start within the
\* look-back before v.
MarkersFor(d, v) ==
  {c \in 1..v : /\ CategoryAt(d, c)
                /\ CategoryEnd(d, FirstNonNL(d, c + 1)) <= v
                /\ CharLen(SubSeq(d, c, v - 1)) <= LookBack}

Greatest(S) == CHOOSE x \in S : \A y \in S : y <= x

\* The name of the nearest such marker, "General" when there is none.
NearestCategory(d, v) ==
  IF MarkersFor(d, v) = {} THEN General
  ELSE CategoryName(d, FirstNonNL(d, Greatest(MarkersFor(d, v)) + 1))

SegmentedSpans == pc = "segmented" /\ Spans(doc, 1) # <<>>

\* C19: every matched span is labelled with the name of the nearest marker
\* "Category <name> Vulnerability" at or before it within the look-back of
\* 2000 characters, the marker whose own "Vulnerability" opens the span
\* included, and with "General" only when there is no such marker.
C19_SegmentCategory ==
  SegmentedSpans =>
    \A n \in 1..Len(segments) :
      segments[n].category = NearestCategory(doc, Spans(doc, 1)[n].v)

(***************************************************************************)
(* Deduplication by embeddings: semantic_dedupe                            *)
(* (pipeline/heuristic_pipeline.py) and filter_unique (utils/semantics.py).*)
(* The items of a call are numbered in their order; cosine similarities    *)
(* are counted in thousandths.                                             *)
(***************************************************************************)
\* threshold = 0.88, SIM_THRESHOLD "0.88"
Threshold == 880

\* The similarities two different items can have.
PairSims == {879, 880, 881}
ItemPairs(n) == {pr \in (1..n) \X (1..n) : pr[1] < pr[2]}

\* _cos_sim, cosine_similarity of the embeddings of items i and j
SimOf(sim, i, j) ==
  IF i = j THEN 1000 ELSE IF i < j THEN sim[<<i, j>>] ELSE sim[<<j, i>>]

\* for j, kept in enumerate(keep): if _cos_sim(e, kept["emb"]) >= threshold
IsDup(sim, keep, i) ==
  \E k \in 1..Len(keep) : SimOf(sim, i, keep[k]) >= Threshold

\* for i, e in enumerate(embs): the loop over the embeddings returned
RECURSIVE DedupeLoop(_, _, _, _)
DedupeLoop(sim, embs, i, keep) ==
  IF i > embs THEN keep
  ELSE DedupeLoop(sim, embs, i + 1,
                  IF IsDup(sim, keep, i) THEN keep ELSE Append(keep, i))

\* semantic_dedupe(items) for n items of which _ollama_embed returned
\* embeddings for the first embs.
semantic_dedupe(n, sim, embs) ==
  IF n <= 1 THEN [i \in 1..n |-> i] ELSE DedupeLoop(sim, embs, 1, <<>>)

\* The number of vectors _ollama_embed can return for n texts: one for each
\* (the keys "embeddings" and "data", the fallback) or one ("embedding").
EmbCounts(n) == IF n <= 1 THEN {n} ELSE {1, n}

\* The rows query_embeddings can return for an item: the similarity of the
\* stored entry to the item and whether the row carries its embedding.
Match(s, e) == [sim |-> s, emb |-> e]
NoTextVuln == [text |-> FALSE, matches |-> <<>>]
Vuln(ms) == [text |-> TRUE, matches |-> ms]
VulnPool ==
  { NoTextVuln,
    Vuln(<<>>),
    Vuln(<<Match(881, TRUE)>>),
    Vuln(<<Match(881, FALSE), Match(879, TRUE)>>) }

\* best = max(best, cosine_similarity(vector, mvec)) over the rows that
\* carry an embedding, from 0.0.
RECURSIVE Best(_)
BestWith(m, best) == IF m.emb /\ m.sim > best THEN m.sim ELSE best
Best(ms) ==
  IF ms = <<>> THEN 0
  ELSE BestWith(ms[Len(ms)], Best(SubSeq(ms, 1, Len(ms) - 1)))

\* One item of filter_unique is appended to unique.
IsUnique(v) ==
  /\ v.text
  /\ v.matches = <<>> \/ Best(v.matches) < Threshold

\* filter_unique(vulnerabilities)
RECURSIVE UniqueLoop(_, _, _)
UniqueLoop(vs, i, unique) ==
  IF i > Len(vs) THEN unique
  ELSE UniqueLoop(vs, i + 1,
                  IF IsUnique(vs[i]) THEN Append(unique, i) ELSE unique)

filter_unique(vs) == UniqueLoop(vs, 1, <<>>)

Call(op, n, sim, embs, vs) ==
  [op |-> op, n |-> n, sim |-> sim, embs |-> embs, vs |-> vs, kept |-> <<>>]

\* The calls of semantic_dedupe with up to max items.
SemanticCalls(max) ==
  UNION { { Call("semantic_dedupe", n, sim, e, <<>>) :
              sim \in [ItemPairs(n) -> PairSims], e \in EmbCounts(n) } :
          n \in 0..max }

\* The calls of filter_unique with up to max items.
FilterCalls(max) ==
  UNION { { Call("filter_unique", n, sim, n, vs) :
              sim \in [ItemPairs(n) -> PairSims], vs \in [1..n -> VulnPool] } :
          n \in 0..max }

InitDedupe ==
  /\ pc = "dedupe"
  /\ dedup \in SemanticCalls(MaxItems) \cup FilterCalls(MaxItems)
  /\ ParIdle
  /\ AcqIdle
  /\ SegIdle
  /\ LateIdle
  /\ LinkIdle
  /\ SubmitIdle
  /\ ExtractIdle
  /\ ChunkIdle

SemanticDedupe ==
  /\ pc = "dedupe"
  /\ dedup.op = "semantic_dedupe"
  /\ dedup' = [dedup EXCEPT !.kept = semantic_dedupe(dedup.n, dedup.sim, dedup.embs)]
  /\ pc' = "deduped"
  /\ UNCHANGED <<chunkVars, extractVars, linkVars, submitVars, parVars, acqVars, segVars, lateVars>>

FilterUnique ==
  /\ pc = "dedupe"
  /\ dedup.op = "filter_unique"
  /\ dedup' = [dedup EXCEPT !.kept = filter_unique(dedup.vs)]
  /\ pc' = "deduped"
  /\ UNCHANGED <<chunkVars, extractVars, linkVars, submitVars, parVars, acqVars, segVars, lateVars>>

NextDedupe ==
  \/ SemanticDedupe
  \/ FilterUnique

SpecDedupe == InitDedupe /\ [][NextDedupe]_vars

\* The kept list is a subsequence of the input that keeps its order.
KeptInOrder ==
  /\ \A a \in 1..Len(dedup.kept) : dedup.kept[a] \in 1..dedup.n
  /\ \A a, b \in 1..Len(dedup.kept) : a < b => dedup.kept[a] < dedup.kept[b]

\* No kept item is as similar as the threshold to an earlier kept item.
KeptApart ==
  \A a, b \in 1..Len(dedup.kept) :
    a < b => SimOf(dedup.sim, dedup.kept[a], dedup.kept[b]) < Threshold

\* Vuln i has an embedding, and nothing outside the list is compared with it.
Compared(i) ==
  IF dedup.op = "semantic_dedupe" THEN i <= dedup.embs
  ELSE dedup.vs[i].text /\ dedup.vs[i].matches = <<>>

\* A call with two such items.
PairCall == dedup.n = 2 /\ Compared(1) /\ Compared(2)

\* Two items at 0.879 are both kept, two items at 0.881 leave the earlier.
PairBoundary ==
  PairCall =>
    /\ dedup.sim[<<1, 2>>] = 879 => dedup.kept = <<1, 2>>
    /\ dedup.sim[<<1, 2>>] = 881 => dedup.kept = <<1>>

DedupeAsClaimed == KeptInOrder /\ KeptApart /\ PairBoundary

\* What holds of semantic_dedupe alone.
SemanticDedupeAsClaimed ==
  pc = "deduped" /\ dedup.op = "semantic_dedupe" => DedupeAsClaimed

\* C20: deduplication by embeddings uses the threshold 0.88: two items with
\* similarity 0.879 are both kept, two items with similarity 0.881 are
\* merged and the earlier one is kept; the kept list is a subsequence of the
\* input in its order in which no kept item has a similarity at or above
\* the threshold with an earlier kept item.
C20_DedupThreshold == pc = "deduped" => DedupeAsClaimed

(***************************************************************************)
(* The vulnerability an OFC was nested under, which merge_vofc_results     *)
(* does not record.                                                        *)
(***************************************************************************)
\* For every OFC the loops record, in order: the vuln_id of the item it was
\* listed under and whether that item was deduplicated into a vulnerability
\* accepted before.
RECURSIVE NestingLoop(_, _, _)
NestingLoop(st, items, nest) ==
  IF items = <<>> THEN nest
  ELSE LET after == MergeItem(st, Head(items))
           under == [id |-> after.vuln_ids[Len(after.vuln_ids)],
                     dup |-> Len(after.vulnerabilities) = Len(st.vulnerabilities)]
       IN  NestingLoop(after, Tail(items),
                       nest \o [k \in 1..(Len(after.ofcs) - Len(st.ofcs)) |-> under])

Nesting == NestingLoop(MergeStart, Concat(all_results), <<>>)

\* The choice of the orphan resolution for OFC o: a vulnerability of
\* highest text similarity among those that match its text, else the first
\* vulnerability, else a placeholder.
OrphanChoice(o, id, M) ==
  IF M # {}
  THEN \E i \in M : id = merged.vulnerabilities[i].id /\ Highest(o, i, M)
  ELSE IF merged.vulnerabilities # <<>>
  THEN id = merged.vulnerabilities[1].id
  ELSE id \notin IdsOf(merged.vulnerabilities)

\* C26: every OFC of the result of merge_vofc_results has no linked
\* vulnerability, and an OFC that the linker leaves without one gets the
\* vulnerability the orphan resolution chooses from the texts alone.
C26_NestingNotRecorded ==
  /\ pc = "link" =>
       /\ Len(Nesting) = Len(merged.ofcs)
       /\ \A k \in 1..Len(merged.ofcs) : merged.ofcs[k].linked_vulnerability = NoId
  /\ pc \in AfterRows =>
       \A k \in 1..Len(ofc_rows) :
         merged.ofcs[k].linked_vulnerability = NoId =>
           OrphanChoice(merged.ofcs[k], ofc_rows[k].vulnerability_id,
                        Matching(merged.ofcs[k]))

\* C26 witness: a finished run in which an OFC that was listed under an
\* item deduplicated into an accepted vulnerability was left without a link
\* and got another vulnerability than the one it was listed under.
C26_Witness ==
  /\ pc = "done"
  /\ \E k \in 1..Len(ofc_rows) :
       /\ Nesting[k].dup
       /\ merged.ofcs[k].linked_vulnerability = NoId
       /\ ofc_rows[k].vulnerability_id \in IdsOf(merged.vulnerabilities)
       /\ ofc_rows[k].vulnerability_id # Nesting[k].id

(***************************************************************************)
(* The loops of process_submission over the vulnerabilities and the OFCs   *)
(* of a merged result, taken as a function of that result: it is applied   *)
(* to the results of merge_vofc_results and to results with OFCs and no    *)
(* vulnerability, the only ones for which the placeholder branches run.    *)
(***************************************************************************)
\* The id of a vulnerability that is in no merged result: beyond the ids
\* of the OFCs and every fresh id.
DanglingId == 2 * MaxOrphans + 2

\* The merged results with up to max OFCs and no vulnerability, an OFC
\* having no link or a link to a vulnerability that is not there.
OfcOnly(max) ==
  {[vulnerabilities |-> <<>>,
    ofcs |-> [k \in 1..Len(o) |->
                [id |-> k, title |-> o[k][1], linked_vulnerability |-> o[k][2]]],
    links |-> [vuln_ofc |-> Len(o), ofc_sources |-> 0],
    vuln_ids |-> <<>>,
    next_id |-> Len(o) + 1] :
     o \in UNION {[1..n -> PoolOptions \X {NoId, DanglingId}] : n \in 1..max}}

InitResolve ==
  /\ pc = "rows"
  /\ \/ \E rl \in RunPool : all_results = rl /\ merged = merge_vofc_results(rl)
     \/ all_results = <<>> /\ merged \in OfcOnly(MaxOrphans)
  /\ path = "engine" /\ n_chunks = 0 /\ outcomes = <<>>
  /\ LinkIdle
  /\ SubmitIdle
  /\ ChunkIdle
  /\ AuxIdle

NextResolve == BuildVulnRows \/ ResolveOfc

SpecResolve == InitResolve /\ [][NextResolve]_vars

\* The placeholder rows of vuln_rows.
PlaceholderRows == {n \in 1..Len(vuln_rows) : IsPlaceholder(vuln_rows[n])}

\* C27: the loop over the OFCs creates at most one placeholder: the first
\* OFC of a result without vulnerabilities creates it and every OFC gets
\* its id; a placeholder exists only for a result with an OFC and no
\* vulnerability, and no result of merge_vofc_results is of that kind.
C27_OnePlaceholder ==
  /\ merged = merge_vofc_results(all_results) =>
       (merged.ofcs # <<>> => merged.vulnerabilities # <<>>)
  /\ pc = "resolve" =>
       /\ Cardinality(PlaceholderRows) <= 1
       /\ PlaceholderRows # {} =>
            /\ merged.vulnerabilities = <<>>
            /\ merged.ofcs # <<>>
            /\ merged # merge_vofc_results(all_results)
            /\ IsPlaceholder(vuln_rows[1])
            /\ \A k \in 1..Len(ofc_rows) :
                 ofc_rows[k].vulnerability_id = vuln_rows[1].id
       /\ merged.vulnerabilities = <<>> /\ ofc_rows # <<>> => PlaceholderRows # {}

\* C27 witness: three OFCs of a result without vulnerabilities, the second
\* with a link to a vulnerability that is not there, are resolved: one
\* placeholder row, and the three rows of the OFCs name it.
C27_Witness ==
  /\ pc = "resolve"
  /\ merged.vulnerabilities = <<>>
  /\ Len(merged.ofcs) = 3
  /\ merged.ofcs[1].linked_vulnerability = NoId
  /\ merged.ofcs[2].linked_vulnerability = DanglingId
  /\ Len(ofc_rows) = 3
  /\ Len(vuln_rows) = 1
  /\ IsPlaceholder(vuln_rows[1])
  /\ \A k \in 1..3 : ofc_rows[k].vulnerability_id = vuln_rows[1].id

(***************************************************************************)
(* The link count of the result objects of the pipeline.                   *)
(***************************************************************************)
\* The rows of OFCs that name a vulnerability.
ReferringRows(rows) ==
  Cardinality({k \in 1..Len(rows) : rows[k].vulnerability_id # NoId})

\* C23: in every result object of the pipeline links.vuln_ofc is the number
\* of OFCs of that result that reference a vulnerability: in the result of
\* merge_vofc_results, in the result of link_vulns_to_ofcs and in the final
\* output of process_submission.
C23_LinkCountDerived ==
  /\ pc \in {"link", "linked"} =>
       merged.links.vuln_ofc = LinkedCount(merged.ofcs)
  /\ pc = "done" => results.links.vuln_ofc = ReferringRows(ofc_rows)

(***************************************************************************)
(* The scan of call_ollama for the JSON text in the answer of the model.   *)
(* An answer is a sequence of tokens: the brackets and braces, "v" for a   *)
(* scalar or a key with a scalar, "t" for a word that is no JSON.  The     *)
(* commas and keys between the values are left out.                        *)
(***************************************************************************)
RawTokens == {"[", "]", "{", "}", "v", "t"}

\* raw.find(ch): the position of the first ch, 0 when there is none
Find(raw, ch) == Least({i \in 1..Len(raw) : raw[i] = ch})

\* raw[json_start:] or raw[json_obj_start:] or raw
FromStart(raw, json_start, json_obj_start) ==
  IF json_start # 0 /\ (json_obj_start = 0 \/ json_start < json_obj_start)
  THEN SubSeq(raw, json_start, Len(raw))
  ELSE IF json_obj_start # 0
  THEN SubSeq(raw, json_obj_start, Len(raw))
  ELSE raw

\* The loop that finds json_end, at token i with the two counters.
RECURSIVE JsonEnd(_, _, _, _, _, _)
JsonEnd(raw, json_start, json_obj_start, i, bracket_count, brace_count) ==
  IF i > Len(raw) THEN Len(raw)
  ELSE IF raw[i] = "["
  THEN JsonEnd(raw, json_start, json_obj_start, i + 1, bracket_count + 1, brace_count)
  ELSE IF raw[i] = "]"
  THEN IF bracket_count - 1 = 0 /\ json_start # 0 THEN i
       ELSE JsonEnd(raw, json_start, json_obj_start, i + 1, bracket_count - 1, brace_count)
  ELSE IF raw[i] = "{"
  THEN JsonEnd(raw, json_start, json_obj_start, i + 1, bracket_count, brace_count + 1)
  ELSE IF raw[i] = "}"
  THEN IF brace_count - 1 = 0 /\ json_obj_start # 0 /\ json_start = 0 THEN i
       ELSE JsonEnd(raw, json_start, json_obj_start, i + 1, bracket_count, brace_count - 1)
  ELSE JsonEnd(raw, json_start, json_obj_start, i + 1, bracket_count, brace_count)

\* json.loads: the index of the last token of the JSON value that starts
\* at token i, 0 when there is none.
RECURSIVE ValueEnd(_, _)
RECURSIVE ItemsEnd(_, _, _)
ItemsNext(txt, e, close) == IF e = 0 THEN 0 ELSE ItemsEnd(txt, e + 1, close)
ItemsEnd(txt, i, close) ==
  IF i > Len(txt) THEN 0
  ELSE IF txt[i] = close THEN i
  ELSE ItemsNext(txt, ValueEnd(txt, i), close)
ValueEnd(txt, i) ==
  IF i > Len(txt) THEN 0
  ELSE IF txt[i] = "v" THEN i
  ELSE IF txt[i] = "[" THEN ItemsEnd(txt, i + 1, "]")
  ELSE IF txt[i] = "{" THEN ItemsEnd(txt, i + 1, "}")
  ELSE 0

\* json.loads(txt) does not raise: txt is one JSON value and nothing else.
Loads(txt) == txt # <<>> /\ ValueEnd(txt, 1) = Len(txt)

\* What call_ollama returns for the text it parses, written as JSON: the
\* parsed value, [parsed] for an object, [] when json.loads raises.
Parsed(txt) ==
  IF ~Loads(txt) THEN <<"[", "]">>
  ELSE IF txt[1] = "{" THEN <<"[">> \o txt \o <<"]">>
  ELSE txt

Cut(raw, json_start, json_obj_start) ==
  SubSeq(raw, 1, JsonEnd(raw, json_start, json_obj_start, 1, 0, 0))

\* The scan and the parse of call_ollama on the answer raw.
ScanFrom(raw, json_start, json_obj_start) ==
  Parsed(Cut(FromStart(raw, json_start, json_obj_start), json_start, json_obj_start))

ScanAnswer(raw) == ScanFrom(raw, Find(raw, "["), Find(raw, "{"))

InitScan ==
  /\ pc = "scan"
  /\ scan \in {[raw |-> r, result |-> <<>>] : r \in SeqsUpTo(RawTokens, MaxRawLen)}
  /\ ParIdle
  /\ AcqIdle
  /\ SegIdle
  /\ DedIdle
  /\ ReqIdle
  /\ EmbIdle
  /\ MultiIdle
  /\ BatchIdle
  /\ WatchIdle
  /\ LinkIdle
  /\ SubmitIdle
  /\ ExtractIdle
  /\ ChunkIdle

Scan ==
  /\ pc = "scan"
  /\ scan' = [scan EXCEPT !.result = ScanAnswer(scan.raw)]
  /\ pc' = "scanned"
  /\ UNCHANGED <<earlyVars, reqVars, embVars, multiVars, batchVars, watchVars>>

NextScan == Scan

SpecScan == InitScan /\ [][NextScan]_vars

\* The first bracket or brace of the answer, 0 when it has none.
FirstOpen(raw) == Least({i \in 1..Len(raw) : raw[i] \in {"[", "{"}})

CloseOf(open) == IF open = "[" THEN "]" ELSE "}"

\* The openings less the closings of the kind of the opening at p, over
\* the tokens p..q.
Depth(raw, p, q) ==
  Cardinality({i \in p..q : raw[i] = raw[p]})
    - Cardinality({i \in p..q : raw[i] = CloseOf(raw[p])})

\* The token that closes the opening at p by counting, 0 when none does.
MatchingClose(raw, p) ==
  Least({q \in (p + 1)..Len(raw) : raw[q] = CloseOf(raw[p]) /\ Depth(raw, p, q) = 0})

ScannedSpan(raw, p) == SubSeq(raw, p, MatchingClose(raw, p))

HasSpan(raw) == FirstOpen(raw) # 0 /\ MatchingClose(raw, FirstOpen(raw)) # 0

\* C21: the scan starts at the first bracket or brace of the answer, ends at
\* the token that closes that opening, and exactly that text is parsed: an
\* array is returned as the list, an object as a list of one element, also
\* when the object holds arrays or the array holds objects.
C21_BalancedScan ==
  pc = "scanned" /\ HasSpan(scan.raw) =>
    scan.result = Parsed(ScannedSpan(scan.raw, FirstOpen(scan.raw)))

(***************************************************************************)
(* The endpoints process-one and process-pending of app/routes/documents   *)
(* with _process_file and the moves of app/services/file_manager.  The     *)
(* server handles requests in parallel threads; a request that posts no    *)
(* path, as the auto-processor does, takes the first pending file.  Files  *)
(* are numbered in the order of their names.  Each call on the file system *)
(* is one step.                                                            *)
(***************************************************************************)
Reqs == 1..MaxReqs
Files == 1..MaxFiles

IdleReq == [kind |-> "none", pc |-> "idle", file |-> 0, queue |-> <<>>, results |-> <<>>]

InitRequests ==
  /\ pc = "requests"
  /\ \E inc \in SUBSET Files :
       folders = [incoming |-> inc, processed |-> {}, errors |-> {}, outputs |-> {}]
  /\ req = [r \in Reqs |-> IdleReq]
  /\ updates = <<>>
  /\ ParIdle
  /\ AcqIdle
  /\ SegIdle
  /\ DedIdle
  /\ ScanIdle
  /\ EmbIdle
  /\ MultiIdle
  /\ BatchIdle
  /\ WatchIdle
  /\ LinkIdle
  /\ SubmitIdle
  /\ ExtractIdle
  /\ ChunkIdle

\* list_pending(limit): sorted(files)[:limit]
RECURSIVE Sorted(_)
Sorted(S) == IF S = {} THEN <<>> ELSE <<Least(S)>> \o Sorted(S \ {Least(S)})
list_pending(limit) ==
  SubSeq(Sorted(folders.incoming), 1,
         IF Cardinality(folders.incoming) < limit
         THEN Cardinality(folders.incoming) ELSE limit)

\* The request goes on with the files of queue: _process_file on the first
\* one, the response when there is none.
Continue(rq, queue) ==
  IF queue = <<>> THEN [rq EXCEPT !.pc = "returned", !.file = 0, !.queue = <<>>]
  ELSE [rq EXCEPT !.pc = "read", !.file = Head(queue), !.queue = Tail(queue)]

\* process_one with a body without path: the first pending file, or the
\* answer "no pending files".
ProcessOne(r) ==
  /\ req[r].pc = "idle"
  /\ req' = [req EXCEPT ![r] = Continue([@ EXCEPT !.kind = "one"], list_pending(1))]
  /\ UNCHANGED <<pc, folders, updates, earlyVars, scanVars, embVars, multiVars, batchVars, watchVars>>

\* process_pending: the pending files, limit 10, one after the other.
ProcessPending(r) ==
  /\ req[r].pc = "idle"
  /\ req' = [req EXCEPT ![r] = Continue([@ EXCEPT !.kind = "pending"], list_pending(10))]
  /\ UNCHANGED <<pc, folders, updates, earlyVars, scanVars, embVars, multiVars, batchVars, watchVars>>

\* read_file_text: returns a text, "" when the file cannot be read.
ReadFile(r) ==
  /\ req[r].pc = "read"
  /\ req' = [req EXCEPT ![r].pc = "parse"]
  /\ UNCHANGED <<pc, folders, updates, earlyVars, scanVars, embVars, multiVars, batchVars, watchVars>>

\* parse_text_to_vofc returns or raises.
ParseText(r) ==
  /\ req[r].pc = "parse"
  /\ \E ok \in BOOLEAN :
       req' = [req EXCEPT ![r].pc = IF ok THEN "write" ELSE "except"]
  /\ UNCHANGED <<pc, folders, updates, earlyVars, scanVars, embVars, multiVars, batchVars, watchVars>>

\* out_path.write_text writes <stem>.vofc.json or raises.
WriteOutput(r) ==
  /\ req[r].pc = "write"
  /\ \E ok \in BOOLEAN :
       IF ok
       THEN /\ folders' = [folders EXCEPT !.outputs = @ \cup {req[r].file}]
            /\ req' = [req EXCEPT ![r].pc = "move"]
       ELSE /\ req' = [req EXCEPT ![r].pc = "except"]
            /\ UNCHANGED folders
  /\ UNCHANGED <<pc, updates, earlyVars, scanVars, embVars, multiVars, batchVars, watchVars>>

\* move_to_processed: src.rename(dst), and shutil.move when that raises;
\* both raise when the file is not in the incoming folder any more.
MoveToProcessed(r) ==
  /\ req[r].pc = "move"
  /\ IF req[r].file \in folders.incoming
     THEN /\ folders' = [folders EXCEPT !.incoming = @ \ {req[r].file},
                                        !.processed = @ \cup {req[r].file}]
          /\ req' = [req EXCEPT ![r].pc = "completed"]
     ELSE /\ req' = [req EXCEPT ![r].pc = "except"]
          /\ UNCHANGED folders
  /\ UNCHANGED <<pc, updates, earlyVars, scanVars, embVars, multiVars, batchVars, watchVars>>

\* The end of _process_file with a result: the status update and the
\* return to the endpoint.
Finish(r, status) ==
  /\ updates' = Append(updates, [req |-> r, file |-> req[r].file, status |-> status])
  /\ req' = [req EXCEPT ![r] =
               Continue([@ EXCEPT !.results = Append(@, <<req[r].file, status>>)],
                        req[r].queue)]

\* update_submission_meta(status "completed") and return ProcessResult.
Completed(r) ==
  /\ req[r].pc = "completed"
  /\ Finish(r, "completed")
  /\ UNCHANGED <<pc, folders, earlyVars, scanVars, embVars, multiVars, batchVars, watchVars>>

\* The except branch: move_to_errors.  When the file is not in the incoming
\* folder any more it raises, out of _process_file and out of the endpoint.
MoveToErrors(r) ==
  /\ req[r].pc = "except"
  /\ IF req[r].file \in folders.incoming
     THEN /\ folders' = [folders EXCEPT !.incoming = @ \ {req[r].file},
                                        !.errors = @ \cup {req[r].file}]
          /\ req' = [req EXCEPT ![r].pc = "failed"]
     ELSE /\ req' = [req EXCEPT ![r].pc = "raised",
                                ![r].results = Append(@, <<req[r].file, "raised">>)]
          /\ UNCHANGED folders
  /\ UNCHANGED <<pc, updates, earlyVars, scanVars, embVars, multiVars, batchVars, watchVars>>

\* update_submission_meta(status "failed", error) and return ProcessResult.
Failed(r) ==
  /\ req[r].pc = "failed"
  /\ Finish(r, "failed")
  /\ UNCHANGED <<pc, folders, earlyVars, scanVars, embVars, multiVars, batchVars, watchVars>>

NextRequests ==
  \E r \in Reqs :
    \/ ProcessOne(r)
    \/ ProcessPending(r)
    \/ ReadFile(r)
    \/ ParseText(r)
    \/ WriteOutput(r)
    \/ MoveToProcessed(r)
    \/ Completed(r)
    \/ MoveToErrors(r)
    \/ Failed(r)

SpecRequests == InitRequests /\ [][NextRequests]_vars

\* Request r is executing _process_file.
InProcessFile(r) ==
  req[r].pc \in {"read", "parse", "write", "move", "completed", "except", "failed"}

\* C22: a document whose processing fails gets status "failed" with the
\* error in its submission record and a failed result is returned; no
\* exception leaves _process_file, whichever step failed.
C22_FailureSummary ==
  pc = "requests" =>
    \A r \in Reqs :
      /\ req[r].pc # "raised"
      /\ \A k \in 1..Len(req[r].results) :
           /\ req[r].results[k][2] \in {"completed", "failed"}
           /\ \E u \in 1..Len(updates) :
                updates[u] = [req |-> r, file |-> req[r].results[k][1],
                              status |-> req[r].results[k][2]]

\* The number of status updates with this status for file f.
UpdatesOf(f, status) ==
  Cardinality({u \in 1..Len(updates) :
                 updates[u].file = f /\ updates[u].status = status})

AllEnded == \A r \in Reqs : req[r].pc \in {"idle", "returned", "raised"}

\* C28: no two executions of _process_file run on the same file, and when
\* the requests have ended each file that was taken up is in exactly one of
\* the folders processed and errors, with one matching status update.
C28_OneExecutionPerFile ==
  pc = "requests" =>
    /\ \A r1, r2 \in Reqs :
         r1 # r2 /\ InProcessFile(r1) /\ InProcessFile(r2)
           => req[r1].file # req[r2].file
    /\ folders.processed \cap folders.errors = {}
    /\ AllEnded =>
         \A f \in Files :
           /\ f \in folders.processed
                => UpdatesOf(f, "completed") = 1 /\ UpdatesOf(f, "failed") = 0
           /\ f \in folders.errors
                => UpdatesOf(f, "failed") = 1 /\ UpdatesOf(f, "completed") = 0

(***************************************************************************)
(* _ollama_embed and _cos_sim (pipeline/heuristic_pipeline.py).  A text is *)
(* given by its length; the components of a vector are integers, those of  *)
(* the placeholder vectors counted in 512ths.                              *)
(***************************************************************************)
\* len(t) % 512 / 512.0, ten times
Modulus == 512
PlaceholderDim == 10
Placeholder(len) == [k \in 1..PlaceholderDim |-> len % Modulus]

\* [[len(t) % 512 / 512.0] * 10 for t in texts]
NoPlaceholders(texts) == <<>>
Placeholders(texts) == [i \in 1..Len(texts) |-> Placeholder(texts[i])]

\* The lengths of the texts and the vectors a response can hold.
TextLens == {0, 3, 512}
VecPool == {<<>>, <<1, 0>>, <<1, 1>>}

\* What the request to /api/embeddings can end with: a transport error, a
\* status other than 200, a body that is no JSON, the JSON value null, or a
\* JSON object with vectors under one of the keys or under none.
Response(kind, key, vectors) == [kind |-> kind, key |-> key, vectors |-> vectors]
Responses(max) ==
  {Response(k, "none", <<>>) : k \in {"transport", "status", "not_json", "null"}}
  \cup {Response("object", "none", <<>>)}
  \cup {Response("object", key, vs) :
          key \in {"embeddings", "data"}, vs \in SeqsUpTo(VecPool, max)}
  \cup {Response("object", "embedding", <<v>>) : v \in VecPool}

\* not vectors or not any(vectors)
NoVectors(vectors) == \A k \in 1..Len(vectors) : vectors[k] = <<>>

EmbedReturns(vectors) == [raised |-> FALSE, vectors |-> vectors]
EmbedRaises == [raised |-> TRUE, vectors |-> <<>>]

\* _ollama_embed(texts) when the request ends with resp; caught tells
\* whether the error of r.json() on a body that is no JSON is a
\* RequestException, which depends on the version of requests.
ollama_embed(texts, resp, caught) ==
  IF texts = <<>> THEN EmbedReturns(<<>>)
  ELSE IF resp.kind \in {"transport", "status"} THEN EmbedReturns(Placeholders(texts))
  ELSE IF resp.kind = "not_json"
  THEN IF caught THEN EmbedReturns(Placeholders(texts)) ELSE EmbedRaises
  ELSE IF resp.kind = "null" THEN EmbedRaises
  ELSE IF NoVectors(resp.vectors) THEN EmbedReturns(Placeholders(texts))
  ELSE EmbedReturns(resp.vectors)

\* sum(x * y for x, y in zip(a, b))
RECURSIVE Dot(_, _)
Dot(a, b) ==
  IF a = <<>> \/ b = <<>> THEN 0 ELSE Head(a) * Head(b) + Dot(Tail(a), Tail(b))

\* num / (da * db): the quotient, given by num and the squares of da and
\* db, or ZeroDivisionError.
Quotient(num, da2, db2) ==
  [error |-> da2 * db2 = 0, num |-> num, da2 |-> da2, db2 |-> db2]

\* _cos_sim(a, b)
cos_sim(a, b) ==
  IF Dot(a, a) = 0 \/ Dot(b, b) = 0 THEN Quotient(0, 1, 1)
  ELSE Quotient(Dot(a, b), Dot(a, a), Dot(b, b))

InitEmbed ==
  /\ pc = "embed"
  /\ embed \in {[texts |-> t, resp |-> r, result |-> <<>>] :
                   t \in SeqsUpTo(TextLens, MaxTexts), r \in Responses(MaxTexts)}
  /\ ParIdle
  /\ AcqIdle
  /\ SegIdle
  /\ DedIdle
  /\ ScanIdle
  /\ ReqIdle
  /\ MultiIdle
  /\ BatchIdle
  /\ WatchIdle
  /\ LinkIdle
  /\ SubmitIdle
  /\ ExtractIdle
  /\ ChunkIdle

OllamaEmbed ==
  /\ pc = "embed"
  /\ \E caught \in BOOLEAN :
       embed' = [embed EXCEPT !.result = ollama_embed(embed.texts, embed.resp, caught)]
  /\ pc' = "embedded"
  /\ UNCHANGED <<earlyVars, scanVars, reqVars, multiVars, batchVars, watchVars>>

NextEmbed == OllamaEmbed

SpecEmbed == InitEmbed /\ [][NextEmbed]_vars

\* The cases of the claim: a status other than 200, a transport error, an
\* object without embeddings or with empty vectors only.
EmbeddingFailed ==
  /\ embed.texts # <<>>
  /\ \/ embed.resp.kind \in {"transport", "status"}
     \/ embed.resp.kind = "object" /\ NoVectors(embed.resp.vectors)

MODELS ==
  << [name |-> "vofc-engine", role |-> "primary"],
     [name |-> "mistral", role |-> "validation"],
     [name |-> "llama3", role |-> "cross-check"] >>

KeyLen == 100

Run(ch, n) == [ch |-> ch, n |-> n]

\* The value null of a vulnerability field.
NullText == <<Run("null", 0)>>

\* The texts the models answer with: blanks only, two spellings of one
\* word, and two long texts that differ after their first hundred
\* characters only.
AnswerTexts ==
  { <<Run(" ", 2)>>,
    <<Run("a", 1)>>,
    <<Run(" ", 1), Run("A", 1), Run(" ", 1)>>,
    <<Run("x", KeyLen), Run("a", 1)>>,
    <<Run("X", KeyLen), Run("b", 1)>>,
    NullText }

\* str.lower()
LowerCh(ch) == IF ch = "A" THEN "a" ELSE IF ch = "X" THEN "x" ELSE ch
Lower(tx) == [k \in 1..Len(tx) |-> Run(LowerCh(tx[k].ch), tx[k].n)]

\* The same text with adjacent runs of one character joined.
RECURSIVE Joined(_)
Joined(tx) ==
  IF Len(tx) < 2 THEN tx
  ELSE IF tx[1].ch = tx[2].ch
  THEN Joined(<<Run(tx[1].ch, tx[1].n + tx[2].n)>> \o SubSeq(tx, 3, Len(tx)))
  ELSE <<tx[1]>> \o Joined(Tail(tx))

\* str.strip()
RECURSIVE LStrip(_)
LStrip(tx) ==
  IF tx # <<>> /\ tx[1].ch = " " THEN LStrip(Tail(tx)) ELSE tx
RECURSIVE RStrip(_)
RStrip(tx) ==
  IF tx # <<>> /\ tx[Len(tx)].ch = " "
  THEN RStrip(SubSeq(tx, 1, Len(tx) - 1)) ELSE tx
StripRuns(tx) == RStrip(LStrip(tx))

\* text[:n]
RECURSIVE Prefix(_, _)
Prefix(tx, n) ==
  IF tx = <<>> \/ n = 0 THEN <<>>
  ELSE IF tx[1].n >= n THEN <<Run(tx[1].ch, n)>>
  ELSE <<tx[1]>> \o Prefix(Tail(tx), n - tx[1].n)

\* item.get("vulnerability", "").lower().strip()[:100]
vuln_key(item) == Prefix(StripRuns(Joined(Lower(item.vulnerability))), KeyLen)

\* if vuln_key and vuln_key not in seen_vulnerabilities
AnyKey(key, seen) == key # <<>>
Unseen(key, seen) == key # <<>> /\ key \notin seen

\* The items of the results of one kind of role, in the order of the loops.
RECURSIVE ItemsOf(_, _)
ItemsOf(model_results, primary) ==
  IF model_results = <<>> THEN <<>>
  ELSE (IF (Head(model_results).role = "primary") = primary
        THEN Head(model_results).data ELSE <<>>)
       \o ItemsOf(Tail(model_results), primary)

\* The two loops over the items: all_results after the items were handled.
RECURSIVE CombineLoop(_, _, _)
CombineLoop(items, results_so_far, seen) ==
  IF items = <<>> THEN results_so_far
  ELSE IF Unseen(vuln_key(Head(items)), seen)
  THEN CombineLoop(Tail(items), Append(results_so_far, Head(items)),
                   seen \cup {vuln_key(Head(items))})
  ELSE CombineLoop(Tail(items), results_so_far, seen)

\* combine_model_results(model_results); None has no lower(), so an item
\* whose vulnerability is null raises AttributeError.
combine_model_results(model_results) ==
  LET items == ItemsOf(model_results, TRUE) \o ItemsOf(model_results, FALSE)
  IN  IF \E k \in 1..Len(items) : items[k].vulnerability = NullText
      THEN [raised |-> TRUE, items |-> <<>>]
      ELSE [raised |-> FALSE, items |-> CombineLoop(items, <<>>, {})]

\* The lists a model can answer with, of at most max items.
Answers(model, max) ==
  UNION {[1..n -> AnswerTexts] : n \in 0..max}

\* The list process_with_model returns for an outcome of the request.
ModelData(model, outcome, answers) ==
  IF outcome \in {"failed", "invalid"} THEN <<>>
  ELSE [k \in 1..Len(answers) |->
          [vulnerability |-> answers[k], model |-> model, n |-> k]]

\* The items the models returned so far.
ItemCount(model_results) == Len(ItemsOf(model_results, TRUE)) + Len(ItemsOf(model_results, FALSE))

InitMulti ==
  /\ pc = "models"
  /\ multi = [model_results |-> <<>>, combined |-> <<>>]
  /\ ParIdle
  /\ AcqIdle
  /\ SegIdle
  /\ DedIdle
  /\ ScanIdle
  /\ ReqIdle
  /\ EmbIdle
  /\ BatchIdle
  /\ WatchIdle
  /\ LinkIdle
  /\ SubmitIdle
  /\ ExtractIdle
  /\ ChunkIdle

\* One turn of the loop of process_document: the next model is asked; the
\* request fails, the answer holds no JSON list, or it holds one.
ProcessWithModel ==
  /\ pc = "models"
  /\ Len(multi.model_results) < Len(MODELS)
  /\ LET config == MODELS[Len(multi.model_results) + 1]
     IN  \E outcome \in {"failed", "invalid", "list"} :
           \E texts \in Answers(config.name, MaxCombined - ItemCount(multi.model_results)) :
             /\ outcome # "list" => texts = <<>>
             /\ multi' = [multi EXCEPT !.model_results =
                   Append(@, [model |-> config.name, role |-> config.role,
                              outcome |-> outcome,
                              data |-> ModelData(config.name, outcome, texts)])]
  /\ pc' = "models"
  /\ UNCHANGED <<earlyVars, scanVars, reqVars, embVars, batchVars, watchVars>>

CombineResults ==
  /\ pc = "models"
  /\ Len(multi.model_results) = Len(MODELS)
  /\ multi' = [multi EXCEPT !.combined = combine_model_results(multi.model_results)]
  /\ pc' = "combined"
  /\ UNCHANGED <<earlyVars, scanVars, reqVars, embVars, batchVars, watchVars>>

NextMulti == ProcessWithModel \/ CombineResults

SpecMulti == InitMulti /\ [][NextMulti]_vars

\* The position of an item in the order the loops handle the items: the
\* items of the primary model first, then those of the others in the order
\* of the models.
PrimaryName == "vofc-engine"
ModelIndex(name) == CHOOSE m \in 1..Len(MODELS) : MODELS[m].name = name
Earlier(a, b) ==
  \/ ModelIndex(a.model) < ModelIndex(b.model)
  \/ a.model = b.model /\ a.n < b.n
AllItems == UNION {Range(multi.model_results[m].data) : m \in 1..Len(multi.model_results)}
Combined == multi.combined.items

\* C25: in the combined list no two items have the same key, no item has an
\* empty key, every item of the primary model precedes every item of the
\* other models, an item of another model is in the list only if no item
\* handled before it has its key, a model whose call failed has no item in
\* the list, and every non-empty key a model returned is in the list.
C25_CombinePrecedence ==
  pc = "combined" /\ ~multi.combined.raised =>
    /\ \A i, j \in 1..Len(Combined) :
         i < j => vuln_key(Combined[i]) # vuln_key(Combined[j])
    /\ \A i \in 1..Len(Combined) : vuln_key(Combined[i]) # <<>>
    /\ \A i, j \in 1..Len(Combined) :
         i < j /\ Combined[j].model = PrimaryName => Combined[i].model = PrimaryName
    /\ \A i \in 1..Len(Combined) :
         /\ Combined[i] \in AllItems
         /\ Combined[i].model # PrimaryName =>
              \A a \in AllItems :
                Earlier(a, Combined[i]) => vuln_key(a) # vuln_key(Combined[i])
    /\ \A m \in 1..Len(MODELS) :
         multi.model_results[m].outcome = "failed" =>
           \A i \in 1..Len(Combined) : Combined[i].model # MODELS[m].name
    /\ \A a \in AllItems :
         vuln_key(a) # <<>> =>
           \E i \in 1..Len(Combined) : vuln_key(Combined[i]) = vuln_key(a)

\* C25 witness: the primary model failed, the second model returned a long
\* text and a blank one, the third a text with the same first hundred
\* characters; the list holds the long text of the second model only.
C25_Witness ==
  /\ pc = "combined"
  /\ ~multi.combined.raised
  /\ multi.model_results[1].outcome = "failed"
  /\ Len(multi.model_results[2].data) = 2
  /\ Len(multi.model_results[3].data) = 1
  /\ multi.model_results[2].data[1].vulnerability = <<Run("x", KeyLen), Run("a", 1)>>
  /\ multi.model_results[2].data[2].vulnerability = <<Run(" ", 2)>>
  /\ multi.model_results[3].data[1].vulnerability = <<Run("X", KeyLen), Run("b", 1)>>
  /\ Combined = <<multi.model_results[2].data[1]>>

(***************************************************************************)
(* The batch endpoint (routes/process_pending.py) on the submissions table *)
(* (utils/supabase_client.py).  A submission has a status and names its    *)
(* file by ollama_file_id, by file_hash, or not at all; a file_hash has a  *)
(* file in the incoming folder or has none.                                *)
(***************************************************************************)
SubIds == 1..MaxSubs
PendingLimit == 5

Submission(file_id, file_hash) ==
  [status |-> "submitted", file_id |-> file_id, file_hash |-> file_hash]
Submissions ==
  {Submission(f, h) : f \in BOOLEAN, h \in {"none", "found", "missing"}}

NoBatch == [state |-> "idle", pending |-> <<>>, pos |-> 0, file_path |-> "unset",
            error |-> "none", n |-> 0]

InitBatch ==
  /\ pc = "batch"
  /\ subs \in [SubIds -> Submissions]
  /\ batch = NoBatch
  /\ ScanIdle
  /\ ReqIdle
  /\ EmbIdle
  /\ MultiIdle
  /\ WatchIdle
  /\ ParIdle
  /\ AcqIdle
  /\ SegIdle
  /\ DedIdle
  /\ LinkIdle
  /\ SubmitIdle
  /\ ExtractIdle
  /\ ChunkIdle

\* The ids of the rows with status "submitted", in the order of the table.
RECURSIVE SubmittedFrom(_, _)
SubmittedFrom(rows, k) ==
  IF k > Len(rows) THEN <<>>
  ELSE (IF rows[k].status = "submitted" THEN <<k>> ELSE <<>>)
       \o SubmittedFrom(rows, k + 1)

\* pull_pending(limit)
pull_pending(rows, limit) ==
  LET ids == SubmittedFrom(rows, 1)
  IN  SubSeq(ids, 1, IF Len(ids) < limit THEN Len(ids) ELSE limit)

\* A request arrives: pending = pull_pending(limit=5); without a pending
\* submission the handler returns at once.
PullPending ==
  /\ pc = "batch"
  /\ batch.state \in {"idle", "returned", "raised"}
  /\ batch.n < MaxBatches
  /\ LET pending == pull_pending(subs, PendingLimit)
     IN  batch' = [state |-> IF pending = <<>> THEN "returned" ELSE "running",
                   pending |-> pending, pos |-> 1, file_path |-> "unset",
                   error |-> "none", n |-> batch.n + 1]
  /\ UNCHANGED <<pc, subs, earlyVars, scanVars, reqVars, embVars, multiVars, watchVars>>

\* The submission the loop is at.
Sub == subs[batch.pending[batch.pos]]

\* The head of the loop body: file_path is get_local_path(file_id), or
\* get_path(file_hash), which raises FileNotFoundError when no file of the
\* incoming folder has the hash, or None.
LocateFile ==
  /\ pc = "batch"
  /\ batch.state = "running"
  /\ batch.pos <= Len(batch.pending)
  /\ batch.file_path = "unset"
  /\ batch' =
       IF Sub.file_id THEN [batch EXCEPT !.file_path = "path"]
       ELSE IF Sub.file_hash = "found" THEN [batch EXCEPT !.file_path = "path"]
       ELSE IF Sub.file_hash = "missing"
       THEN [batch EXCEPT !.state = "raised", !.error = "FileNotFoundError"]
       ELSE [batch EXCEPT !.file_path = "None"]
  /\ UNCHANGED <<pc, subs, earlyVars, scanVars, reqVars, embVars, multiVars, watchVars>>

\* not file_path: the submission is skipped (continue).
SkipSubmission ==
  /\ pc = "batch"
  /\ batch.state = "running"
  /\ batch.file_path = "None"
  /\ batch' = [batch EXCEPT !.pos = @ + 1, !.file_path = "unset"]
  /\ UNCHANGED <<pc, subs, earlyVars, scanVars, reqVars, embVars, multiVars, watchVars>>

\* os.path.exists(file_path): the module does not import os, the name is
\* not bound and the test raises NameError.  No try encloses the loop body,
\* so the request ends here; lines 41 to 91 are reached by no request.
ExistsCheck ==
  /\ pc = "batch"
  /\ batch.state = "running"
  /\ batch.file_path = "path"
  /\ batch' = [batch EXCEPT !.state = "raised", !.error = "NameError"]
  /\ UNCHANGED <<pc, subs, earlyVars, scanVars, reqVars, embVars, multiVars, watchVars>>

\* The loop is over: {"status": "ok", "processed": processed}.
ReturnProcessed ==
  /\ pc = "batch"
  /\ batch.state = "running"
  /\ batch.pos > Len(batch.pending)
  /\ batch' = [batch EXCEPT !.state = "returned"]
  /\ UNCHANGED <<pc, subs, earlyVars, scanVars, reqVars, embVars, multiVars, watchVars>>

BatchStep == LocateFile \/ SkipSubmission \/ ExistsCheck \/ ReturnProcessed

NextBatch == PullPending \/ BatchStep

SpecBatch == InitBatch /\ [][NextBatch]_vars

\* A request that was started is handled to its end.
SpecBatchLive == SpecBatch /\ WF_vars(BatchStep)

\* C29: a submission that is marked "processing" is later "completed" or
\* "submitted" again, and when a request has ended, by a return or by an
\* exception, the loop has been at every submission of its batch.
C29_BatchCompletes ==
  /\ \A id \in SubIds :
       (subs[id].status = "processing")
         ~> (subs[id].status \in {"completed", "submitted"})
  /\ [](batch.state \in {"returned", "raised"} =>
          \A k \in 1..Len(batch.pending) : k <= batch.pos)

(***************************************************************************)
(* The folder watcher (automation/ollama_auto_processor.py): the observer  *)
(* thread hands one event after the other to DocumentHandler; while the    *)
(* handler sleeps or the pipeline runs, files of the incoming folder can   *)
(* be written and removed by others.                                       *)
(***************************************************************************)
WatchPaths == {"a.pdf", "b.docx", "n.txt"}
DocPaths == {"a.pdf", "b.docx"}

\* A file of the incoming folder: absent, below min_file_size, or complete.
FileStates == {"absent", "small", "complete"}

NoHandler == [state |-> "idle", path |-> "none"]

InitWatch ==
  /\ pc = "watch"
  /\ watch = [files |-> [p \in WatchPaths |-> "absent"],
              processing_files |-> {},
              handler |-> NoHandler,
              alive |-> TRUE,
              last |-> "none",
              events |-> 0]
  /\ ScanIdle
  /\ ReqIdle
  /\ EmbIdle
  /\ MultiIdle
  /\ BatchIdle
  /\ ParIdle
  /\ AcqIdle
  /\ SegIdle
  /\ DedIdle
  /\ LinkIdle
  /\ SubmitIdle
  /\ ExtractIdle
  /\ ChunkIdle

\* Somebody writes a file into the incoming folder, or goes on writing it.
FileWritten(p) ==
  /\ pc = "watch"
  /\ watch.files[p] # "complete"
  /\ \E size \in {"small", "complete"} :
       watch' = [watch EXCEPT !.files[p] = size]
  /\ UNCHANGED <<pc, earlyVars, scanVars, reqVars, embVars, multiVars, batchVars>>

\* Somebody removes or moves away a file of the incoming folder.
FileRemoved(p) ==
  /\ pc = "watch"
  /\ watch.files[p] # "absent"
  /\ watch' = [watch EXCEPT !.files[p] = "absent"]
  /\ UNCHANGED <<pc, earlyVars, scanVars, reqVars, embVars, multiVars, batchVars>>

\* The handler ends: by a return, by a return at the test of
\* processing_files, or by an exception.  What the observer thread does
\* after an exception of a handler is up to the watchdog library: it goes
\* on with the next event or ends.
Ends(w, how) == [w EXCEPT !.handler = NoHandler, !.last = how]
HandlerReturns(how) == watch' = Ends(watch, how)
HandlerRaises(w) ==
  \E alive \in BOOLEAN : watch' = [Ends(w, "raised") EXCEPT !.alive = alive]

\* The observer can hand over an event.
Dispatching ==
  /\ pc = "watch"
  /\ watch.alive
  /\ watch.handler.state = "idle"
  /\ watch.events < MaxEvents

\* The head of on_created and of on_moved: the suffix and processing_files
\* are tested, then the handler sleeps.
Begin(p, wait) ==
  IF p \notin DocPaths
  THEN watch' = [Ends(watch, "ignored") EXCEPT !.events = @ + 1]
  ELSE IF p \in watch.processing_files
  THEN watch' = [Ends(watch, "rejected") EXCEPT !.events = @ + 1]
  ELSE watch' = [watch EXCEPT !.handler = [state |-> wait, path |-> p],
                              !.events = @ + 1]

OnCreated(p) ==
  /\ Dispatching
  /\ Begin(p, "created_wait")
  /\ UNCHANGED <<pc, earlyVars, scanVars, reqVars, embVars, multiVars, batchVars>>

OnMoved(p) ==
  /\ Dispatching
  /\ Begin(p, "moved_wait")
  /\ UNCHANGED <<pc, earlyVars, scanVars, reqVars, embVars, multiVars, batchVars>>

\* on_created after time.sleep(2): a file that is gone or too small is
\* skipped; else its size is read and the handler sleeps again.
CreatedVerify ==
  /\ pc = "watch"
  /\ watch.handler.state = "created_wait"
  /\ IF watch.files[watch.handler.path] = "complete"
     THEN watch' = [watch EXCEPT !.handler.state = "created_settle"]
     ELSE HandlerReturns("skipped")
  /\ UNCHANGED <<pc, earlyVars, scanVars, reqVars, embVars, multiVars, batchVars>>

\* on_created after time.sleep(1): file_path.stat() raises when the file
\* is gone; else process_file is called.
CreatedSettle ==
  /\ pc = "watch"
  /\ watch.handler.state = "created_settle"
  /\ IF watch.files[watch.handler.path] = "absent"
     THEN HandlerRaises(watch)
     ELSE watch' = [watch EXCEPT !.handler.state = "process"]
  /\ UNCHANGED <<pc, earlyVars, scanVars, reqVars, embVars, multiVars, batchVars>>

\* on_moved after time.sleep(1): process_file is called.
MovedCall ==
  /\ pc = "watch"
  /\ watch.handler.state = "moved_wait"
  /\ watch' = [watch EXCEPT !.handler.state = "process"]
  /\ UNCHANGED <<pc, earlyVars, scanVars, reqVars, embVars, multiVars, batchVars>>

\* processing_files when file_path.stat() raises after the path was added,
\* before the try statement.
AfterStatError(files, p) == files \cup {p}

\* process_file up to the try statement: a path of processing_files is
\* refused; else the path is added and the size of the file is logged,
\* which raises FileNotFoundError when the file is gone.
ProcessFileEnter ==
  /\ pc = "watch"
  /\ watch.handler.state = "process"
  /\ LET p == watch.handler.path
     IN  IF p \in watch.processing_files THEN HandlerReturns("rejected")
         ELSE IF watch.files[p] = "absent"
         THEN HandlerRaises([watch EXCEPT !.processing_files =
                                AfterStatError(@, p)])
         ELSE watch' = [watch EXCEPT !.processing_files = @ \cup {p},
                                     !.handler.state = "running"]
  /\ UNCHANGED <<pc, earlyVars, scanVars, reqVars, embVars, multiVars, batchVars>>

\* The try statement of process_file: the pipeline ends with exit code 0,
\* with another exit code, by the timeout or by another exception; the
\* file is renamed into the processed or the errors folder, a failure of
\* which is logged; finally the path is discarded.
PipelineEnds ==
  /\ pc = "watch"
  /\ watch.handler.state = "running"
  /\ \E outcome \in {"success", "exit_code", "timeout", "exception"} :
       watch' = [Ends(watch, outcome) EXCEPT
                   !.files[watch.handler.path] = "absent",
                   !.processing_files = @ \ {watch.handler.path}]
  /\ UNCHANGED <<pc, earlyVars, scanVars, reqVars, embVars, multiVars, batchVars>>

NextWatch ==
  \/ \E p \in WatchPaths : FileWritten(p)
  \/ \E p \in WatchPaths : FileRemoved(p)
  \/ \E p \in WatchPaths : OnCreated(p)
  \/ \E p \in WatchPaths : OnMoved(p)
  \/ CreatedVerify
  \/ CreatedSettle
  \/ MovedCall
  \/ ProcessFileEnter
  \/ PipelineEnds

SpecWatch == InitWatch /\ [][NextWatch]_vars

\* process_file is executing for path p.
Executing(p) == watch.handler.state = "running" /\ watch.handler.path = p

\* C30: processing_files holds a path only while process_file is executing
\* for it, and no event is turned away because its path is in the set.
C30_ProcessingFilesReleased ==
  /\ \A p \in watch.processing_files : Executing(p)
  /\ watch.last # "rejected"

====
